---- MODULE Spec2Model ----
(***************************************************************************)
(* SocialCog.io SocialNetworkService: the analysis orchestrator            *)
(* (analyzeUserProfile, findCrossplatformConnections, generateNetworkMap), *)
(* its NodeCache result cache and the breadth-first network-map builder.   *)
(* Every await of the source is a separate step, the synchronous code      *)
(* between two awaits is one step. One caller is in flight at a time,      *)
(* except in SpecConcurrent, where two callers are interleaved.            *)
(* For the orchestrator the platform adapters are the environment: a fetch *)
(* that has been issued is later resolved with some response or rejected   *)
(* with some error. The adapters' own getUserProfile and the LinkedIn rate *)
(* limiter are modelled at the end of the module.                          *)
(***************************************************************************)
EXTENDS Integers, Sequences, FiniteSets, TLC

\* ------------------------------------------------------------ bounds ----
MaxConnections == 2      \* longest connection list one fetch returns
MaxDepth == 3            \* largest depth argument tried
MaxMaxNodes == 3         \* largest maxNodes argument tried
MaxTime == 1802          \* the clock stops advancing here (seconds)
MaxCalls == 3            \* calls started in one behaviour

\* ------------------------------------------------- program constants ----
StdTTL == 1800           \* NodeCache stdTTL, seconds

\* ------------------------------------------------------------ inputs ----
ProfileIds == {"u1", "u2", "u3"}
Errors == {"NotFound", "RateLimited"}
Platforms == {"twitter", "linkedin", "mastodon"}
Identifiers == {"alice"}
Depths == 0..MaxDepth
MaxNodesArgs == 1..MaxMaxNodes \cup {10}
\* the orchestrator specification calls with few arguments, among them a
\* platform and an identifier that contain the key separator
OrchPlatforms == {"twitter", "twitter_a", "mastodon"}
OrchIdentifiers == {"a_b", "b"}
OrchMapPlatforms == {"linkedin", "mastodon"}
OrchUsers == {"b"}
OrchDepths == {0, 1}
OrchIds == {"u1"}
OrchLists == {<<>>, <<"u2">>}
TimeSteps == {StdTTL \div 2, StdTTL \div 2 + 1}

RECURSIVE SeqsUpTo(_, _)
SeqsUpTo(S, n) ==
  IF n = 0 THEN {<<>>}
  ELSE LET shorter == SeqsUpTo(S, n - 1)
       IN shorter \cup {Append(s, x) : s \in {q \in shorter : Len(q) = n - 1}, x \in S}

\* the connection lists a fetch may return: any ids, in any order, repeats
\* and the fetched node itself included
ConnectionLists == SeqsUpTo(ProfileIds, MaxConnections)

\* ------------------------------------------------------------ values ----
Undefined == [type |-> "undefined"]
NoOutcome == [kind |-> "none"]
NoCall == [op |-> "none"]
NoInsert == [at |-> -1]
NoProfile == [id |-> "", platform |-> ""]
NoEntry == [profile |-> NoProfile, currentDepth |-> 0]
EmptyMap == [center_node |-> Undefined, nodes |-> <<>>, edges |-> <<>>,
             metadata |-> [platform |-> "", depth |-> 0, max_nodes |-> 0,
                           generated_at |-> 0, total_nodes |-> -1, total_edges |-> -1]]

\* String.prototype.toLowerCase on the platform argument
ToLowerCase(s) ==
  CASE s = "Twitter" -> "twitter"
    [] s = "LinkedIn" -> "linkedin"
    [] OTHER -> s

\* template-literal rendering of a number
Digit(n) ==
  CASE n = 0 -> "0" [] n = 1 -> "1" [] n = 2 -> "2" [] n = 3 -> "3"
    [] n = 4 -> "4" [] n = 5 -> "5" [] n = 6 -> "6" [] n = 7 -> "7"
    [] n = 8 -> "8" [] n = 9 -> "9"

RECURSIVE NumToString(_)
NumToString(n) ==
  IF n < 10 THEN Digit(n) ELSE NumToString(n \div 10) \o Digit(n % 10)

AnalysisKey(platform, identifier) ==
  "analysis_" \o platform \o "_" \o identifier

CrossplatformKey(twitterUser, linkedinUser) ==
  "crossplatform_" \o twitterUser \o "_" \o linkedinUser

NetworkMapKey(platform, userIdentifier, depth, maxNodes) ==
  "network_map_" \o platform \o "_" \o userIdentifier \o "_"
     \o NumToString(depth) \o "_" \o NumToString(maxNodes)

\* ------------------------------------------------------------- cache ----
\* NodeCache({stdTTL: 1800, checkperiod: 300}); an entry is [v, t] with t
\* the absolute expiry time, 0 meaning no expiry.
CacheExpired(c, k, t) == c[k].t # 0 /\ c[k].t < t

\* a lookup that never finds anything
CacheGet_AlwaysMiss(c, k, t) == Undefined

CacheGet(c, k, t) ==
  IF k \in DOMAIN c /\ ~CacheExpired(c, k, t) THEN c[k].v ELSE Undefined

\* get deletes the entry it finds expired (deleteOnExpire)
CacheAfterGet(c, k, t) ==
  IF k \in DOMAIN c /\ CacheExpired(c, k, t)
  THEN [x \in DOMAIN c \ {k} |-> c[x]]
  ELSE c

\* a store without expiry
CacheSet_NoExpiry(c, k, v, t) ==
  [x \in DOMAIN c \cup {k} |-> IF x = k THEN [v |-> v, t |-> 0] ELSE c[x]]

CacheSet(c, k, v, t) ==
  [x \in DOMAIN c \cup {k} |->
     IF x = k THEN [v |-> v, t |-> IF StdTTL = 0 THEN 0 ELSE t + StdTTL] ELSE c[x]]

EmptyCache == [x \in {} |-> Undefined]

\* ---------------------------------------------------------- adapters ----
\* TwitterService and LinkedInService as constructed: their response caches
\* (cache), the LinkedIn rate limiter (requestTracker, a Map keyed by the
\* millisecond of the request), the millisecond clock Date.now(), the callers
\* of makeAPIRequest suspended in checkRateLimit (waiting) and the requests
\* in flight (pending); sent lists the times at which requests were sent
\* (history only).
NewServices ==
  [clock |-> 0, twitterCache |-> EmptyCache, linkedinCache |-> EmptyCache,
   requestTracker |-> {}, waiting |-> <<>>, pending |-> 0, sent |-> <<>>]

\* ------------------------------------------------------------- state ----
VARIABLES
  now,             \* the clock, seconds
  cache,           \* this.cache
  call,            \* the arguments of the call in flight
  pc,              \* where the call in flight stands
  fetch,           \* adapter fetches of the call: slot -> [st, err]
  centerProfile,   \* generateNetworkMap: centerProfile
  networkMap,      \* generateNetworkMap: networkMap
  processedNodes,  \* build*NetworkMap: processedNodes
  queue,           \* build*NetworkMap: queue
  cur,             \* build*NetworkMap: the entry being expanded
  outcome,         \* how the call settled
  fetchCount,      \* adapter calls issued by the call in flight
  expansions,      \* connection fetches issued by the build in flight
  failed,          \* the expansions whose fetch was rejected: [id, nodesAt, edgesAt]
  calls,           \* calls started so far
  inserted,        \* per key, the last cache.set not flushed since: [at, v, op, args, hits]
  cacheBroken,     \* the cache throws on get and set
  adapter,         \* the platform adapters: their caches, clock and rate limiter
  peer             \* the frame of the other caller, while this one runs

vars == <<now, cache, call, pc, fetch, centerProfile, networkMap,
          processedNodes, queue, cur, outcome, fetchCount, expansions, failed,
          calls, inserted, cacheBroken, adapter, peer>>

Slots == {"profile", "connections", "li_profile", "li_connections"}
Idle == [st |-> "idle", err |-> "", val |-> Undefined]
Pending == [st |-> "pending", err |-> "", val |-> Undefined]
Resolved(v) == [st |-> "resolved", err |-> "", val |-> v]
Rejected(e) == [st |-> "rejected", err |-> e, val |-> Undefined]
NoFetches == [s \in Slots |-> Idle]

buildVars == <<centerProfile, networkMap, processedNodes, queue, cur, expansions,
               failed>>

\* the local state of a call: its arguments, its position, its fetches, the
\* locals of the build and its outcome
Frame ==
  [call |-> call, pc |-> pc, fetch |-> fetch, centerProfile |-> centerProfile,
   networkMap |-> networkMap, processedNodes |-> processedNodes, queue |-> queue,
   cur |-> cur, outcome |-> outcome, fetchCount |-> fetchCount,
   expansions |-> expansions, failed |-> failed]

\* the frame of a caller that has no call in flight
IdleFrame ==
  [call |-> NoCall, pc |-> "idle", fetch |-> NoFetches, centerProfile |-> NoProfile,
   networkMap |-> EmptyMap, processedNodes |-> {}, queue |-> <<>>, cur |-> NoEntry,
   outcome |-> NoOutcome, fetchCount |-> 0, expansions |-> 0, failed |-> {}]

Init ==
  /\ now = 0
  /\ cache = EmptyCache
  /\ call = NoCall
  /\ pc = "idle"
  /\ fetch = NoFetches
  /\ centerProfile = NoProfile
  /\ networkMap = EmptyMap
  /\ processedNodes = {}
  /\ queue = <<>>
  /\ cur = NoEntry
  /\ outcome = NoOutcome
  /\ fetchCount = 0
  /\ expansions = 0
  /\ failed = {}
  /\ calls = 0
  /\ inserted = EmptyCache
  /\ cacheBroken = FALSE
  /\ adapter = NewServices
  /\ peer = IdleFrame

\* ------------------------------------------------------ shared parts ----
Supported(platform) == ToLowerCase(platform) \in {"twitter", "linkedin"}

\* what the calls record about the lookup they start with (history only)
PrevInsert(key) == IF key \in DOMAIN inserted THEN inserted[key] ELSE NoInsert

NoteHit(key) ==
  IF key \in DOMAIN inserted
  THEN [inserted EXCEPT ![key].hits = @ + 1]
  ELSE inserted

NoteSet(key, v) ==
  [x \in DOMAIN inserted \cup {key} |->
     IF x = key
     THEN [at |-> now, v |-> v, op |-> call.op, args |-> call.args, hits |-> 0]
     ELSE inserted[x]]

Resolve(v) == [kind |-> "resolved", value |-> v]
Reject(e) == [kind |-> "rejected", error |-> e]

\* -------------------------------------------------- analyzeUserProfile ----
\* lines 25-64 up to the first await: key, cache lookup, platform dispatch
AnalyzeUserProfile(platform, identifier) ==
  LET cacheKey == AnalysisKey(platform, identifier)
      cached == CacheGet(cache, cacheKey, now)
  IN
  /\ pc = "idle"
  /\ calls < MaxCalls
  /\ calls' = calls + 1
  /\ call' = [op |-> "analyzeUserProfile", platform |-> platform,
              identifier |-> identifier, args |-> <<platform, identifier>>,
              cacheKey |-> cacheKey, lookupAt |-> now, prev |-> PrevInsert(cacheKey)]
  /\ IF cacheBroken
     THEN /\ outcome' = Reject("CacheError")
          /\ pc' = "done"
          /\ UNCHANGED <<cache, fetch, fetchCount, inserted>>
     ELSE
       /\ cache' = CacheAfterGet(cache, cacheKey, now)
       /\ IF cached # Undefined
          THEN /\ outcome' = Resolve(cached)
               /\ pc' = "done"
               /\ inserted' = NoteHit(cacheKey)
               /\ UNCHANGED <<fetch, fetchCount>>
          ELSE /\ inserted' = inserted
               /\ IF Supported(platform)
                  THEN /\ fetch' = [fetch EXCEPT !["profile"] = Pending]
                       /\ fetchCount' = 1
                       /\ pc' = "a_profile"
                       /\ outcome' = NoOutcome
                  ELSE /\ outcome' = Reject("Unsupported platform: " \o platform)
                       /\ pc' = "done"
                       /\ UNCHANGED <<fetch, fetchCount>>
  /\ UNCHANGED <<now, buildVars, cacheBroken, adapter, peer>>

\* line 45/54 resolved; the connections fetch of line 46/55 is issued
AnalyzeProfileResolve(id) ==
  /\ pc = "a_profile"
  /\ fetch' = [fetch EXCEPT
       !["profile"] = Resolved([id |-> id, platform |-> ToLowerCase(call.platform)]),
       !["connections"] = Pending]
  /\ fetchCount' = fetchCount + 1
  /\ pc' = "a_connections"
  /\ UNCHANGED <<now, cache, call, buildVars, outcome, calls, inserted, cacheBroken, adapter, peer>>

\* a catch that stores the failure under the key before it rethrows
AnalyzeProfileReject_StoresFailure(e) ==
  /\ pc = "a_profile"
  /\ fetch' = [fetch EXCEPT !["profile"] = Rejected(e)]
  /\ cache' = CacheSet(cache, call.cacheKey, Reject(e), now)
  /\ inserted' = NoteSet(call.cacheKey, Reject(e))
  /\ outcome' = Reject(e)
  /\ pc' = "done"
  /\ UNCHANGED <<now, call, buildVars, fetchCount, calls, cacheBroken, adapter, peer>>

\* line 45/54 rejected: the catch of lines 81-87 rethrows
AnalyzeProfileReject(e) ==
  /\ pc = "a_profile"
  /\ fetch' = [fetch EXCEPT !["profile"] = Rejected(e)]
  /\ outcome' = Reject(e)
  /\ pc' = "done"
  /\ UNCHANGED <<now, cache, call, buildVars, fetchCount, calls, inserted, cacheBroken, adapter, peer>>

\* line 46/55 resolved; lines 50-80: scoring, the result, cache.set, return
AnalyzeConnectionsResolve(conns) ==
  LET connections == [count |-> Len(conns), items |-> conns]
      result == [profile |-> fetch["profile"].val,
                 connections |-> connections,
                 analysis |-> [platform |-> ToLowerCase(call.platform)],
                 analyzed_at |-> now,
                 analyzed_by |-> "SocialCog.io"]
  IN
  /\ pc = "a_connections"
  /\ fetch' = [fetch EXCEPT !["connections"] = Resolved(connections)]
  /\ IF cacheBroken
     THEN /\ outcome' = Reject("CacheError")
          /\ UNCHANGED <<cache, inserted>>
     ELSE /\ cache' = CacheSet(cache, call.cacheKey, result, now)
          /\ inserted' = NoteSet(call.cacheKey, result)
          /\ outcome' = Resolve(result)
  /\ pc' = "done"
  /\ UNCHANGED <<now, call, buildVars, fetchCount, calls, cacheBroken, adapter, peer>>

\* line 46/55 rejected: the catch of lines 81-87 rethrows
AnalyzeConnectionsReject(e) ==
  /\ pc = "a_connections"
  /\ fetch' = [fetch EXCEPT !["connections"] = Rejected(e)]
  /\ outcome' = Reject(e)
  /\ pc' = "done"
  /\ UNCHANGED <<now, cache, call, buildVars, fetchCount, calls, inserted, cacheBroken, adapter, peer>>

\* ---------------------------------------- findCrossplatformConnections ----
ProfileSlots == {"profile", "li_profile"}
ConnectionSlots == {"connections", "li_connections"}
SlotPlatform(s) == IF s \in {"profile", "connections"} THEN "twitter" ELSE "linkedin"

\* lines 91-108 up to the first await: key, cache lookup, both profile
\* fetches are started before Promise.all is awaited
FindCrossplatformConnections(twitterUser, linkedinUser) ==
  LET cacheKey == CrossplatformKey(twitterUser, linkedinUser)
      cached == CacheGet(cache, cacheKey, now)
  IN
  /\ pc = "idle"
  /\ calls < MaxCalls
  /\ calls' = calls + 1
  /\ call' = [op |-> "findCrossplatformConnections", twitterUser |-> twitterUser,
              linkedinUser |-> linkedinUser, args |-> <<twitterUser, linkedinUser>>,
              cacheKey |-> cacheKey, lookupAt |-> now, prev |-> PrevInsert(cacheKey)]
  /\ IF cacheBroken
     THEN /\ outcome' = Reject("CacheError")
          /\ pc' = "done"
          /\ UNCHANGED <<cache, fetch, fetchCount, inserted>>
     ELSE
       /\ cache' = CacheAfterGet(cache, cacheKey, now)
       /\ IF cached # Undefined
          THEN /\ outcome' = Resolve(cached)
               /\ pc' = "done"
               /\ inserted' = NoteHit(cacheKey)
               /\ UNCHANGED <<fetch, fetchCount>>
          ELSE /\ inserted' = inserted
               /\ fetch' = [s \in Slots |-> IF s \in ProfileSlots THEN Pending ELSE Idle]
               /\ fetchCount' = 2
               /\ pc' = "x_profiles"
               /\ outcome' = NoOutcome
  /\ UNCHANGED <<now, buildVars, cacheBroken, adapter, peer>>

\* the connection fetches start with the first profile that arrives
CrossProfileResolve_NoJoin(s, id) ==
  LET got == [fetch EXCEPT ![s] = Resolved([id |-> id, platform |-> SlotPlatform(s)])]
  IN
  /\ pc = "x_profiles"
  /\ s \in ProfileSlots
  /\ fetch[s].st = "pending"
  /\ fetch' = [q \in Slots |-> IF q \in ConnectionSlots THEN Pending ELSE got[q]]
  /\ fetchCount' = fetchCount + 2
  /\ pc' = "x_connections"
  /\ UNCHANGED <<now, cache, call, buildVars, outcome, calls, inserted, cacheBroken, adapter, peer>>

\* one of the fetches of lines 106-107 resolved; when it is the second one,
\* Promise.all resolves and both connection fetches of lines 112-113 start
CrossProfileResolve(s, id) ==
  LET got == [fetch EXCEPT ![s] = Resolved([id |-> id, platform |-> SlotPlatform(s)])]
  IN
  /\ pc = "x_profiles"
  /\ s \in ProfileSlots
  /\ fetch[s].st = "pending"
  /\ IF \A q \in ProfileSlots : got[q].st = "resolved"
     THEN /\ fetch' = [q \in Slots |-> IF q \in ConnectionSlots THEN Pending ELSE got[q]]
          /\ fetchCount' = fetchCount + 2
          /\ pc' = "x_connections"
     ELSE /\ fetch' = got
          /\ UNCHANGED <<fetchCount, pc>>
  /\ UNCHANGED <<now, cache, call, buildVars, outcome, calls, inserted, cacheBroken, adapter, peer>>

\* one of the fetches of lines 112-113 resolved; when it is the second one,
\* lines 117-140: analysis, the result, cache.set, return
CrossConnectionsResolve(s, conns) ==
  LET got == [fetch EXCEPT ![s] = Resolved([count |-> Len(conns), items |-> conns])]
      result == [twitter |-> [profile |-> got["profile"].val,
                              connections |-> got["connections"].val],
                 linkedin |-> [profile |-> got["li_profile"].val,
                               connections |-> got["li_connections"].val],
                 cross_platform_analysis |-> [computed |-> TRUE],
                 analyzed_at |-> now,
                 analyzed_by |-> "SocialCog.io"]
  IN
  /\ pc = "x_connections"
  /\ s \in ConnectionSlots
  /\ fetch[s].st = "pending"
  /\ fetch' = got
  /\ IF \A q \in ConnectionSlots : got[q].st = "resolved"
     THEN /\ pc' = "done"
          /\ IF cacheBroken
             THEN /\ outcome' = Reject("CacheError")
                  /\ UNCHANGED <<cache, inserted>>
             ELSE /\ cache' = CacheSet(cache, call.cacheKey, result, now)
                  /\ inserted' = NoteSet(call.cacheKey, result)
                  /\ outcome' = Resolve(result)
     ELSE UNCHANGED <<pc, outcome, cache, inserted>>
  /\ UNCHANGED <<now, call, buildVars, fetchCount, calls, cacheBroken, adapter, peer>>

\* a fetch under Promise.all rejected: Promise.all rejects at once with that
\* error, the catch of lines 141-147 rethrows it
CrossFetchReject(s, e) ==
  /\ pc \in {"x_profiles", "x_connections"}
  /\ fetch[s].st = "pending"
  /\ fetch' = [fetch EXCEPT ![s] = Rejected(e)]
  /\ outcome' = Reject(e)
  /\ pc' = "done"
  /\ UNCHANGED <<now, cache, call, buildVars, fetchCount, calls, inserted, cacheBroken, adapter, peer>>

\* the sibling fetch of a rejected Promise.all settles later; nobody waits
CrossLateSettle(s, r) ==
  /\ pc = "done"
  /\ call.op = "findCrossplatformConnections"
  /\ fetch[s].st = "pending"
  /\ fetch' = [fetch EXCEPT ![s] = r]
  /\ UNCHANGED <<now, cache, call, pc, buildVars, outcome, fetchCount, calls,
                 inserted, cacheBroken, adapter, peer>>

\* ------------------------------------------------ generateNetworkMap ----
formatNodeForMap(profile) == [id |-> profile.id, platform |-> profile.platform]

EdgeType(platform) == IF platform = "twitter" THEN "follows" ELSE "connection"

\* lines 156-211 up to the first await: key, cache lookup, the empty map,
\* platform dispatch
GenerateNetworkMap(platform, userIdentifier, depth, maxNodes) ==
  LET cacheKey == NetworkMapKey(platform, userIdentifier, depth, maxNodes)
      cached == CacheGet(cache, cacheKey, now)
  IN
  /\ pc = "idle"
  /\ calls < MaxCalls
  /\ calls' = calls + 1
  /\ call' = [op |-> "generateNetworkMap", platform |-> platform,
              identifier |-> userIdentifier, depth |-> depth,
              maxNodes |-> maxNodes,
              args |-> <<platform, userIdentifier, depth, maxNodes>>,
              cacheKey |-> cacheKey, lookupAt |-> now, prev |-> PrevInsert(cacheKey)]
  /\ IF cacheBroken
     THEN /\ outcome' = Reject("CacheError")
          /\ pc' = "done"
          /\ UNCHANGED <<cache, fetch, fetchCount, inserted, networkMap>>
     ELSE
       /\ cache' = CacheAfterGet(cache, cacheKey, now)
       /\ IF cached # Undefined
          THEN /\ outcome' = Resolve(cached)
               /\ pc' = "done"
               /\ inserted' = NoteHit(cacheKey)
               /\ UNCHANGED <<fetch, fetchCount, networkMap>>
          ELSE /\ inserted' = inserted
               /\ networkMap' = [EmptyMap EXCEPT !.metadata.platform = platform,
                                                 !.metadata.depth = depth,
                                                 !.metadata.max_nodes = maxNodes,
                                                 !.metadata.generated_at = now]
               /\ IF Supported(platform)
                  THEN /\ fetch' = [fetch EXCEPT !["profile"] = Pending]
                       /\ fetchCount' = 1
                       /\ pc' = "g_profile"
                       /\ outcome' = NoOutcome
                  ELSE /\ outcome' = Reject("Unsupported platform: " \o platform)
                       /\ pc' = "done"
                       /\ UNCHANGED <<fetch, fetchCount>>
  /\ UNCHANGED <<now, centerProfile, processedNodes, queue, cur, expansions,
                 failed, cacheBroken, adapter, peer>>

\* a builder that emits the seed before the loop starts
GenerateProfileResolve_SeedEmitted(id) ==
  /\ pc = "g_profile"
  /\ centerProfile' = [id |-> id, platform |-> ToLowerCase(call.platform)]
  /\ fetch' = [fetch EXCEPT !["profile"] = Resolved(centerProfile')]
  /\ processedNodes' = {}
  /\ queue' = <<[profile |-> centerProfile', currentDepth |-> 0]>>
  /\ networkMap' = [networkMap EXCEPT !.nodes = <<formatNodeForMap(centerProfile')>>]
  /\ pc' = "loop"
  /\ UNCHANGED <<now, cache, call, cur, outcome, fetchCount,
                 expansions, failed, calls, inserted, cacheBroken, adapter, peer>>

\* line 186/198 resolved: centerProfile is set and build*NetworkMap starts
\* (lines 234-235)
GenerateProfileResolve(id) ==
  /\ pc = "g_profile"
  /\ centerProfile' = [id |-> id, platform |-> ToLowerCase(call.platform)]
  /\ fetch' = [fetch EXCEPT !["profile"] = Resolved(centerProfile')]
  /\ processedNodes' = {}
  /\ queue' = <<[profile |-> centerProfile', currentDepth |-> 0]>>
  /\ pc' = "loop"
  /\ UNCHANGED <<now, cache, call, networkMap, cur, outcome, fetchCount,
                 expansions, failed, calls, inserted, cacheBroken, adapter, peer>>

\* line 186/198 rejected: the catch of lines 224-230 rethrows
GenerateProfileReject(e) ==
  /\ pc = "g_profile"
  /\ fetch' = [fetch EXCEPT !["profile"] = Rejected(e)]
  /\ outcome' = Reject(e)
  /\ pc' = "done"
  /\ UNCHANGED <<now, cache, call, buildVars, fetchCount, calls, inserted, cacheBroken, adapter, peer>>

\* a loop that only stops on an empty queue
LoopContinues_NoCap == queue # <<>>

\* the while condition of lines 237/296
LoopContinues == queue # <<>> /\ Len(networkMap.nodes) < call.maxNodes

\* a test that forgets the seen-set
SkipEntry_NoSeenCheck(entry) == entry.currentDepth >= call.depth

\* a test that forgets the depth
SkipEntry_NoDepthCheck(entry) == entry.profile.id \in processedNodes

\* the test of lines 240/299
SkipEntry(entry) ==
  entry.profile.id \in processedNodes \/ entry.currentDepth >= call.depth

\* lines 238-242: the dequeued entry is discarded
BuildSkip ==
  /\ pc = "loop"
  /\ LoopContinues
  /\ SkipEntry(Head(queue))
  /\ queue' = Tail(queue)
  /\ UNCHANGED <<now, cache, call, pc, fetch, centerProfile, networkMap,
                 processedNodes, cur, outcome, fetchCount, expansions, failed,
                 calls, inserted, cacheBroken, adapter, peer>>

\* an expansion that issues the fetch and goes on with the loop without
\* awaiting it
BuildExpand_NoAwait ==
  /\ pc = "loop"
  /\ LoopContinues
  /\ ~SkipEntry(Head(queue))
  /\ queue' = Tail(queue)
  /\ cur' = Head(queue)
  /\ processedNodes' = processedNodes \cup {Head(queue).profile.id}
  /\ networkMap' = [networkMap EXCEPT
                      !.nodes = Append(@, formatNodeForMap(Head(queue).profile))]
  /\ fetch' = [fetch EXCEPT !["connections"] = Pending]
  /\ fetchCount' = fetchCount + 1
  /\ expansions' = expansions + 1
  /\ pc' = "loop"
  /\ UNCHANGED <<now, cache, call, centerProfile, outcome, failed, calls, inserted,
                 cacheBroken, adapter, peer>>

\* an expansion that forgets to push the node
BuildExpand_NoEmit ==
  /\ pc = "loop"
  /\ LoopContinues
  /\ ~SkipEntry(Head(queue))
  /\ queue' = Tail(queue)
  /\ cur' = Head(queue)
  /\ processedNodes' = processedNodes \cup {Head(queue).profile.id}
  /\ fetch' = [fetch EXCEPT !["connections"] = Pending]
  /\ fetchCount' = fetchCount + 1
  /\ expansions' = expansions + 1
  /\ pc' = "expand"
  /\ UNCHANGED <<now, cache, call, centerProfile, networkMap, outcome, failed,
                 calls, inserted, cacheBroken, adapter, peer>>

\* lines 238-252: the dequeued entry is marked, emitted and its connections
\* fetch is issued
BuildExpand ==
  /\ pc = "loop"
  /\ LoopContinues
  /\ ~SkipEntry(Head(queue))
  /\ queue' = Tail(queue)
  /\ cur' = Head(queue)
  /\ processedNodes' = processedNodes \cup {Head(queue).profile.id}
  /\ networkMap' = [networkMap EXCEPT
                      !.nodes = Append(@, formatNodeForMap(Head(queue).profile))]
  /\ fetch' = [fetch EXCEPT !["connections"] = Pending]
  /\ fetchCount' = fetchCount + 1
  /\ expansions' = expansions + 1
  /\ pc' = "expand"
  /\ UNCHANGED <<now, cache, call, centerProfile, outcome, failed, calls, inserted,
                 cacheBroken, adapter, peer>>

\* a loop body that emits the edge only for a connection not seen before
ProcessConnection_EdgeIfUnseen(st, id, source, currentDepth, platform) ==
  LET connection == [id |-> id, platform |-> platform]
      edge == [source |-> source, target |-> id,
               type |-> EdgeType(platform), platform |-> platform]
      withEdge == [st EXCEPT !.edges = Append(@, edge)]
  IN
  IF id \notin st.processedNodes /\ currentDepth + 1 < call.depth
  THEN [withEdge EXCEPT
          !.queue = Append(@, [profile |-> connection,
                               currentDepth |-> currentDepth + 1])]
  ELSE IF id \notin st.processedNodes
  THEN [withEdge EXCEPT
          !.nodes = Append(@, formatNodeForMap(connection)),
          !.processedNodes = @ \cup {id}]
  ELSE st

\* lines 254-282: one pass of the for loop body for the connection id, on
\* st = [nodes, edges, queue, processedNodes]
ProcessConnection(st, id, source, currentDepth, platform) ==
  LET connection == [id |-> id, platform |-> platform]
      edge == [source |-> source, target |-> id,
               type |-> EdgeType(platform), platform |-> platform]
      withEdge == [st EXCEPT !.edges = Append(@, edge)]
  IN
  IF id \notin st.processedNodes /\ currentDepth + 1 < call.depth
  THEN [withEdge EXCEPT
          !.queue = Append(@, [profile |-> connection,
                               currentDepth |-> currentDepth + 1])]
  ELSE IF id \notin st.processedNodes
  THEN [withEdge EXCEPT
          !.nodes = Append(@, formatNodeForMap(connection)),
          !.processedNodes = @ \cup {id}]
  ELSE withEdge

\* lines 254-282: the for loop over the fetched connections
RECURSIVE ProcessConnections(_, _, _, _, _)
ProcessConnections(conns, st, source, currentDepth, platform) ==
  IF conns = <<>> THEN st
  ELSE ProcessConnections(Tail(conns),
         ProcessConnection(st, Head(conns), source, currentDepth, platform),
         source, currentDepth, platform)

\* line 249/308 resolved with the list conns
ExpandResolve(conns) ==
  /\ pc = "expand"
  /\ LET st == ProcessConnections(conns,
                  [nodes |-> networkMap.nodes, edges |-> networkMap.edges,
                   queue |-> queue, processedNodes |-> processedNodes],
                  cur.profile.id, cur.currentDepth, ToLowerCase(call.platform))
     IN /\ networkMap' = [networkMap EXCEPT !.nodes = st.nodes, !.edges = st.edges]
        /\ queue' = st.queue
        /\ processedNodes' = st.processedNodes
  /\ fetch' = [fetch EXCEPT !["connections"] =
                  Resolved([of |-> cur.profile.id, items |-> conns])]
  /\ pc' = "loop"
  /\ UNCHANGED <<now, cache, call, centerProfile, cur, outcome, fetchCount,
                 expansions, failed, calls, inserted, cacheBroken, adapter, peer>>

\* a rejected fetch that aborts the build and the call
ExpandReject_Rethrows(e) ==
  /\ pc = "expand"
  /\ fetch' = [fetch EXCEPT !["connections"] = Rejected(e)]
  /\ failed' = failed \cup {[id |-> cur.profile.id,
                             nodesAt |-> Len(networkMap.nodes),
                             edgesAt |-> Len(networkMap.edges)]}
  /\ outcome' = Reject(e)
  /\ pc' = "done"
  /\ UNCHANGED <<now, cache, call, centerProfile, networkMap, processedNodes,
                 queue, cur, expansions, fetchCount, calls, inserted, cacheBroken, adapter, peer>>

\* line 249/308 rejected: caught at lines 283-288, the loop goes on
ExpandReject(e) ==
  /\ pc = "expand"
  /\ fetch' = [fetch EXCEPT !["connections"] = Rejected(e)]
  /\ failed' = failed \cup {[id |-> cur.profile.id,
                             nodesAt |-> Len(networkMap.nodes),
                             edgesAt |-> Len(networkMap.edges)]}
  /\ pc' = "loop"
  /\ UNCHANGED <<now, cache, call, centerProfile, networkMap, processedNodes,
                 queue, cur, expansions, outcome, fetchCount, calls, inserted,
                 cacheBroken, adapter, peer>>

\* the center node taken from the node list instead of the seed profile
GenerateNetworkMapFinish_FirstNode ==
  LET result == [networkMap EXCEPT
                   !.center_node = IF networkMap.nodes = <<>> THEN Undefined
                                   ELSE networkMap.nodes[1],
                   !.metadata.total_nodes = Len(networkMap.nodes),
                   !.metadata.total_edges = Len(networkMap.edges)]
  IN
  /\ pc = "loop"
  /\ ~LoopContinues
  /\ networkMap' = result
  /\ IF cacheBroken
     THEN /\ outcome' = Reject("CacheError")
          /\ UNCHANGED <<cache, inserted>>
     ELSE /\ cache' = CacheSet(cache, call.cacheKey, result, now)
          /\ inserted' = NoteSet(call.cacheKey, result)
          /\ outcome' = Resolve(result)
  /\ pc' = "done"
  /\ UNCHANGED <<now, call, fetch, centerProfile, processedNodes, queue, cur,
                 fetchCount, expansions, failed, calls, cacheBroken, adapter, peer>>

\* the loop ends; lines 213-223
GenerateNetworkMapFinish ==
  LET result == [networkMap EXCEPT
                   !.center_node = formatNodeForMap(centerProfile),
                   !.metadata.total_nodes = Len(networkMap.nodes),
                   !.metadata.total_edges = Len(networkMap.edges)]
  IN
  /\ pc = "loop"
  /\ ~LoopContinues
  /\ networkMap' = result
  /\ IF cacheBroken
     THEN /\ outcome' = Reject("CacheError")
          /\ UNCHANGED <<cache, inserted>>
     ELSE /\ cache' = CacheSet(cache, call.cacheKey, result, now)
          /\ inserted' = NoteSet(call.cacheKey, result)
          /\ outcome' = Resolve(result)
  /\ pc' = "done"
  /\ UNCHANGED <<now, call, fetch, centerProfile, processedNodes, queue, cur,
                 fetchCount, expansions, failed, calls, cacheBroken, adapter, peer>>

\* ------------------------------------------------------- environment ----
\* the caller takes the settled promise
Return ==
  /\ pc = "done"
  /\ pc' = "idle"
  /\ call' = NoCall
  /\ fetch' = NoFetches
  /\ centerProfile' = NoProfile
  /\ networkMap' = EmptyMap
  /\ processedNodes' = {}
  /\ queue' = <<>>
  /\ cur' = NoEntry
  /\ outcome' = NoOutcome
  /\ fetchCount' = 0
  /\ expansions' = 0
  /\ failed' = {}
  /\ UNCHANGED <<now, cache, calls, inserted, cacheBroken, adapter, peer>>

\* lines 1005-1008
ClearCache ==
  /\ cache # EmptyCache
  /\ cache' = EmptyCache
  /\ inserted' = EmptyCache
  /\ UNCHANGED <<now, call, pc, fetch, buildVars, outcome, fetchCount, calls,
                 cacheBroken, adapter, peer>>

\* the periodic check of NodeCache (checkperiod: 300) deletes expired entries
CacheSweep ==
  /\ \E k \in DOMAIN cache : CacheExpired(cache, k, now)
  /\ cache' = [k \in {x \in DOMAIN cache : ~CacheExpired(cache, x, now)} |-> cache[k]]
  /\ UNCHANGED <<now, call, pc, fetch, buildVars, outcome, fetchCount, calls,
                 inserted, cacheBroken, adapter, peer>>

Tick(d) ==
  /\ now + d <= MaxTime
  /\ now' = now + d
  /\ UNCHANGED <<cache, call, pc, fetch, buildVars, outcome, fetchCount, calls,
                 inserted, cacheBroken, adapter, peer>>

\* the cache starts or stops throwing
CacheBreaks ==
  /\ cacheBroken' = ~cacheBroken
  /\ UNCHANGED <<now, cache, call, pc, fetch, buildVars, outcome, fetchCount,
                 calls, inserted, adapter, peer>>

\* ---------------------------------------------------- specifications ----
AnalyzeSteps(ids, lists) ==
  \/ \E id \in ids : AnalyzeProfileResolve(id)
  \/ \E e \in Errors : AnalyzeProfileReject(e)
  \/ \E conns \in lists : AnalyzeConnectionsResolve(conns)
  \/ \E e \in Errors : AnalyzeConnectionsReject(e)

CrossSteps(ids, lists) ==
  \/ \E s \in ProfileSlots, id \in ids : CrossProfileResolve(s, id)
  \/ \E s \in ConnectionSlots, conns \in lists : CrossConnectionsResolve(s, conns)
  \/ \E s \in Slots, e \in Errors : CrossFetchReject(s, e)
  \/ \E s \in Slots, r \in {Resolved(Undefined)} \cup {Rejected(e) : e \in Errors} :
        CrossLateSettle(s, r)

MapSteps(ids, lists) ==
  \/ \E id \in ids : GenerateProfileResolve(id)
  \/ \E e \in Errors : GenerateProfileReject(e)
  \/ BuildSkip
  \/ BuildExpand
  \/ \E conns \in lists : ExpandResolve(conns)
  \/ \E e \in Errors : ExpandReject(e)
  \/ GenerateNetworkMapFinish

\* the orchestrator: all three operations, the cache and the clock
Next ==
  \/ \E p \in OrchPlatforms, i \in OrchIdentifiers : AnalyzeUserProfile(p, i)
  \/ \E t \in OrchUsers, l \in OrchUsers : FindCrossplatformConnections(t, l)
  \/ \E p \in OrchMapPlatforms, i \in OrchUsers, d \in OrchDepths :
        GenerateNetworkMap(p, i, d, Cardinality(OrchIds) + 1)
  \/ AnalyzeSteps(OrchIds, OrchLists)
  \/ CrossSteps(OrchIds, OrchLists)
  \/ MapSteps(OrchIds, OrchLists)
  \/ Return
  \/ ClearCache
  \/ CacheSweep
  \/ \E d \in TimeSteps : Tick(d)

Spec == Init /\ [][Next]_vars

\* one network-map build over every connection graph within the bounds
NextBuild ==
  \/ /\ calls = 0
     /\ \E p \in Platforms, i \in Identifiers, d \in Depths, m \in MaxNodesArgs :
          GenerateNetworkMap(p, i, d, m)
  \/ MapSteps(ProfileIds, ConnectionLists)
  \/ Return

SpecBuild == Init /\ [][NextBuild]_vars

\* the orchestrator over a cache that may throw
NextFault == Next \/ CacheBreaks

SpecFault == Init /\ [][NextFault]_vars

\* the build with fair scheduling: the event loop runs every continuation
\* that is ready and the adapter settles every fetch it was given
BuildStep ==
  \/ BuildSkip
  \/ BuildExpand
  \/ \E conns \in ConnectionLists : ExpandResolve(conns)
  \/ \E e \in Errors : ExpandReject(e)
  \/ GenerateNetworkMapFinish

FairSpecBuild == SpecBuild /\ WF_vars(BuildStep)

\* two callers of the one service: between two awaits a call runs alone
\* (JavaScript runs one continuation at a time), and at every await, and
\* when a call has settled, the other caller may run. Switch hands the
\* processor to the other caller; cache and clock are shared.
Switch ==
  /\ peer' = Frame
  /\ call' = peer.call
  /\ pc' = peer.pc
  /\ fetch' = peer.fetch
  /\ centerProfile' = peer.centerProfile
  /\ networkMap' = peer.networkMap
  /\ processedNodes' = peer.processedNodes
  /\ queue' = peer.queue
  /\ cur' = peer.cur
  /\ outcome' = peer.outcome
  /\ fetchCount' = peer.fetchCount
  /\ expansions' = peer.expansions
  /\ failed' = peer.failed
  /\ UNCHANGED <<now, cache, calls, inserted, cacheBroken, adapter>>

\* both callers call with the same few arguments, so that they meet on the
\* same keys
NextConcurrent ==
  \/ \E i \in OrchUsers : AnalyzeUserProfile("twitter", i)
  \/ \E t \in OrchUsers, l \in OrchUsers : FindCrossplatformConnections(t, l)
  \/ \E i \in OrchUsers, d \in {0, 2} : GenerateNetworkMap("twitter", i, d, 2)
  \/ AnalyzeSteps(OrchIds, OrchLists)
  \/ CrossSteps(OrchIds, OrchLists)
  \/ MapSteps(OrchIds, OrchLists)
  \/ Return
  \/ Switch

SpecConcurrent == Init /\ [][NextConcurrent]_vars

\* ------------------------------------------------------------ claims ----
NodeIdsOf(nodes) == {nodes[i].id : i \in 1..Len(nodes)}
Building == pc \in {"loop", "expand"}
GenerateDone == pc = "done" /\ call.op = "generateNetworkMap"

\* C1: the map generateNetworkMap returns never has more than maxNodes nodes.
NodeCountBounded ==
  (GenerateDone /\ outcome.kind = "resolved")
     => Len(outcome.value.nodes) <= call.maxNodes

\* C2: at every step of a build, and in the map returned, no two entries of
\* nodes carry the same id.
NodesUnique ==
  /\ \A i, j \in 1..Len(networkMap.nodes) :
        i # j => networkMap.nodes[i].id # networkMap.nodes[j].id
  /\ (GenerateDone /\ outcome.kind = "resolved")
        => \A i, j \in 1..Len(outcome.value.nodes) :
              i # j => outcome.value.nodes[i].id # outcome.value.nodes[j].id

\* C2 witness: a build holds an emitted node while the same id waits twice
\* in the queue, one of the waiting ids being reachable over a self-link.
DuplicateEnqueued ==
  /\ pc = "loop"
  /\ Len(networkMap.nodes) >= 2
  /\ \E i, j \in 1..Len(queue) : i # j /\ queue[i].profile.id = queue[j].profile.id
  /\ \E k \in 1..Len(networkMap.edges) :
        networkMap.edges[k].source = networkMap.edges[k].target

\* C3: a build issues at most maxNodes connection fetches and always comes to
\* its end.
BuildTerminates ==
  /\ [](Building => expansions <= call.maxNodes)
  /\ (Building ~> pc = "done")

\* C3 witness: a build over the fully connected graph of all profiles has
\* ended after exactly maxNodes expansions.
FullGraphBuilt ==
  /\ GenerateDone
  /\ expansions = call.maxNodes
  /\ Cardinality({<<networkMap.edges[k].source, networkMap.edges[k].target>> :
                    k \in 1..Len(networkMap.edges)})
       = Cardinality(ProfileIds) * (Cardinality(ProfileIds) - 1)
  /\ \A k \in 1..Len(networkMap.edges) :
        networkMap.edges[k].source # networkMap.edges[k].target

\* C4: every map generateNetworkMap resolves with has the fetched seed
\* profile as its center node.
CenterNodePresent ==
  (GenerateDone /\ outcome.kind = "resolved" /\ fetch["profile"].st = "resolved")
     => outcome.value.center_node = formatNodeForMap(fetch["profile"].val)

\* C4 witness: a build with depth 0 returned a map without nodes or edges,
\* and with a center node.
CenterOfEmptyMap ==
  /\ GenerateDone
  /\ call.depth = 0
  /\ outcome.kind = "resolved"
  /\ outcome.value.nodes = <<>>
  /\ outcome.value.edges = <<>>
  /\ outcome.value.center_node.id \in ProfileIds

IsPrefix(a, b) == Len(a) <= Len(b) /\ \A i \in 1..Len(a) : a[i] = b[i]

\* C5: a rejected connections fetch changes neither nodes, edges nor queue
\* and hands control back to the loop; nodes and edges only ever grow during
\* a build; the node whose fetch failed stays in nodes without outgoing
\* edge; and a call whose seed profile was fetched resolves with the map
\* built.
FailedExpansionTolerated ==
  /\ [][(pc = "expand" /\ fetch'["connections"].st = "rejected")
          => (networkMap' = networkMap /\ queue' = queue /\ pc' = "loop")]_vars
  /\ [][(Building /\ pc' # "idle")
          => (IsPrefix(networkMap.nodes, networkMap'.nodes)
              /\ IsPrefix(networkMap.edges, networkMap'.edges))]_vars
  /\ [](\A f \in failed :
          /\ f.id \in NodeIdsOf(networkMap.nodes)
          /\ \A k \in 1..Len(networkMap.edges) : networkMap.edges[k].source # f.id)
  /\ []((GenerateDone /\ fetch["profile"].st = "resolved")
          => /\ outcome.kind = "resolved"
             /\ outcome.value.nodes = networkMap.nodes
             /\ outcome.value.edges = networkMap.edges)

\* C5 witness: the fetch failed for a node other than the seed after edges
\* had been emitted, later expansions emitted more, and the call resolved.
ResolvedAfterFailure ==
  /\ GenerateDone
  /\ outcome.kind = "resolved"
  /\ \E f \in failed :
        /\ f.id # centerProfile.id
        /\ f.edgesAt > 0
        /\ Len(outcome.value.edges) > f.edgesAt
        /\ f.id \in NodeIdsOf(outcome.value.nodes)

\* C6: a call of analyzeUserProfile or generateNetworkMap with a platform
\* outside the supported set ends with 'Unsupported platform' and has issued
\* no adapter fetch.
UnsupportedFailsFast ==
  (pc = "done" /\ call.op \in {"analyzeUserProfile", "generateNetworkMap"}
     /\ ~Supported(call.platform))
     => /\ outcome = Reject("Unsupported platform: " \o call.platform)
        /\ fetchCount = 0

\* a call that finds, for its own arguments, an insertion not flushed since
SameRequestBefore ==
  /\ pc = "done"
  /\ call.prev.at # -1
  /\ call.prev.op = call.op
  /\ call.prev.args = call.args

\* C7: analyzeUserProfile called again with the same arguments no later than
\* StdTTL after the first call stored its result returns that result and
\* issues no adapter fetch.
RepeatServedFromCache ==
  (SameRequestBefore /\ call.op = "analyzeUserProfile"
     /\ call.lookupAt <= call.prev.at + StdTTL)
     => /\ outcome = Resolve(call.prev.v)
        /\ fetchCount = 0

\* C7 witness: the repeat came later than the first call, within the TTL.
RepeatWithinTTL ==
  /\ SameRequestBefore
  /\ call.op = "analyzeUserProfile"
  /\ call.lookupAt > call.prev.at
  /\ call.lookupAt <= call.prev.at + StdTTL
  /\ outcome = Resolve(call.prev.v)

\* C8: every cache entry expires StdTTL after its insertion, however often
\* it was read, and a call that looks its key up later than that and
\* resolves has fetched afresh.
FixedTTL ==
  /\ \A k \in DOMAIN cache :
        /\ k \in DOMAIN inserted
        /\ cache[k].t = inserted[k].at + StdTTL
  /\ (pc = "done" /\ outcome.kind = "resolved" /\ call.prev.at # -1
        /\ call.lookupAt > call.prev.at + StdTTL)
        => fetchCount > 0

\* C8 witness: an entry that was read while alive was looked up after its
\* expiry and the call fetched afresh.
FreshAfterExpiry ==
  /\ pc = "done"
  /\ outcome.kind = "resolved"
  /\ call.prev.at # -1
  /\ call.prev.hits >= 1
  /\ call.lookupAt > call.prev.at + StdTTL
  /\ fetchCount > 0

\* C9: a call on a supported platform none of whose adapter fetches was
\* rejected resolves, also when the cache throws.
CacheFaultTolerated ==
  (pc = "done"
     /\ (call.op = "findCrossplatformConnections" \/ Supported(call.platform))
     /\ \A s \in Slots : fetch[s].st # "rejected")
     => outcome.kind = "resolved"

RejectedSlots == {s \in Slots : fetch[s].st = "rejected"}

\* C10: in findCrossplatformConnections both profile fetches are issued
\* together and both connection fetches are issued together, only once both
\* profiles have resolved; in analyzeUserProfile the connections fetch is
\* issued once the profile has resolved; and a call of either operation in
\* which a fetch was rejected is rejected with the error of a rejected fetch.
FanInAllOrNothing ==
  /\ (call.op = "findCrossplatformConnections")
        => /\ (fetch["profile"].st = "idle") <=> (fetch["li_profile"].st = "idle")
           /\ (fetch["connections"].st = "idle") <=> (fetch["li_connections"].st = "idle")
           /\ (fetch["connections"].st # "idle")
                 => \A q \in ProfileSlots : fetch[q].st = "resolved"
  /\ (call.op = "analyzeUserProfile" /\ fetch["connections"].st # "idle")
        => fetch["profile"].st = "resolved"
  /\ (pc = "done" /\ call.op \in {"findCrossplatformConnections", "analyzeUserProfile"})
        => /\ (RejectedSlots # {})
                 => /\ outcome.kind = "rejected"
                    /\ outcome.error \in {fetch[s].err : s \in RejectedSlots}
           /\ (outcome.kind = "resolved" /\ fetchCount > 0)
                 => \A s \in Slots : fetch[s].st \in {"resolved", "idle"}

\* C10 witness: the LinkedIn connections fetch was rejected while the
\* Twitter one was still out; the call is rejected with that error.
CrossRejected ==
  /\ pc = "done"
  /\ call.op = "findCrossplatformConnections"
  /\ fetch["li_connections"].st = "rejected"
  /\ fetch["connections"].st = "pending"
  /\ outcome = Reject(fetch["li_connections"].err)

\* the keys whose cache entry the step writes
StoredKeys == {k \in DOMAIN cache' : k \notin DOMAIN cache \/ cache'[k] # cache[k]}
LookupStep == pc = "idle" /\ calls' = calls + 1
Started(s) == fetch[s].st = "idle" /\ fetch'[s].st = "pending"

\* C26: a call looks its key up first; on a hit it returns the entry at
\* once, fetching and storing nothing; fetches are issued only by a call
\* that missed and has not returned; the one store of a call is the last
\* step of a call that fetched, it stores under the call's key what the
\* call returns, with no fetch outstanding, and a call that fetched and
\* resolves ends with it. In analyzeUserProfile the connections fetch
\* starts when the profile fetch has resolved; in
\* findCrossplatformConnections no connections fetch starts before both
\* profile fetches have resolved.
StepsInOrder ==
  /\ [][LookupStep
          => /\ StoredKeys = {}
             /\ IF CacheGet(cache, call'.cacheKey, now) # Undefined
                THEN /\ pc' = "done"
                     /\ outcome' = Resolve(CacheGet(cache, call'.cacheKey, now))
                     /\ fetchCount' = 0
                ELSE outcome'.kind # "resolved"]_vars
  /\ [][(fetchCount' > fetchCount)
          => /\ pc' \notin {"idle", "done"}
             /\ call'.cacheKey \notin DOMAIN cache']_vars
  /\ [][(StoredKeys # {})
          => /\ StoredKeys = {call.cacheKey}
             /\ pc \notin {"idle", "done"}
             /\ pc' = "done"
             /\ fetchCount > 0
             /\ fetchCount' = fetchCount
             /\ \A s \in Slots : fetch'[s].st # "pending"
             /\ outcome' = Resolve(cache'[call.cacheKey].v)]_vars
  /\ [][(pc \notin {"idle", "done"} /\ pc' = "done" /\ outcome'.kind = "resolved")
          => StoredKeys = {call.cacheKey}]_vars
  /\ [][(call'.op = "analyzeUserProfile" /\ Started("connections"))
          => fetch'["profile"].st = "resolved"]_vars
  /\ [][(call'.op = "findCrossplatformConnections"
           /\ \E s \in ConnectionSlots : Started(s))
          => \A q \in ProfileSlots : fetch'[q].st = "resolved"]_vars

\* C26 witness: findCrossplatformConnections missed, fetched four times,
\* stored its result and returns it.
CrossStoredAfterFetches ==
  /\ pc = "done"
  /\ call.op = "findCrossplatformConnections"
  /\ fetchCount = 4
  /\ call.cacheKey \in DOMAIN cache
  /\ outcome = Resolve(cache[call.cacheKey].v)

\* C27: a call that fails (unsupported platform, rejected fetch) leaves the
\* cache as it was: the step that fails writes no entry, the call's key has
\* no entry when the call has failed, and the same call made next misses.
FailureLeavesCache ==
  /\ []((pc = "done" /\ outcome.kind = "rejected") => call.cacheKey \notin DOMAIN cache)
  /\ [][(pc' = "done" /\ outcome'.kind = "rejected") => StoredKeys = {}]_vars
  /\ [][(pc = "done" /\ outcome.kind = "rejected" /\ pc' = "idle")
          => CacheGet(cache', call.cacheKey, now') = Undefined]_vars

\* C27 witness: a call whose fetch was rejected has failed while the cache
\* holds the result of an earlier call.
FailedBesideEntry ==
  /\ pc = "done"
  /\ outcome.kind = "rejected"
  /\ RejectedSlots # {}
  /\ cache # EmptyCache

\* a stored value is the finished result of its operation
Complete(v) ==
  IF "center_node" \in DOMAIN v
  THEN /\ v.center_node # Undefined
       /\ v.metadata.total_nodes = Len(v.nodes)
       /\ v.metadata.total_edges = Len(v.edges)
  ELSE IF "analysis" \in DOMAIN v
  THEN v.profile # Undefined /\ v.connections # Undefined
  ELSE /\ "cross_platform_analysis" \in DOMAIN v
       /\ \A side \in {v.twitter, v.linkedin} :
             side.profile # Undefined /\ side.connections # Undefined

\* C24: with two callers interleaved at every await, every value in the
\* cache is the finished result of one call: an entry is written whole, in
\* the last step of the call that computed it and as the value that call
\* returns, a network map only when its loop has ended, with center_node and
\* both totals set; and a hit returns an entry as it was stored.
CacheHoldsWholeResults ==
  /\ [](\A k \in DOMAIN cache : Complete(cache[k].v))
  /\ [][(StoredKeys # {})
          => /\ StoredKeys = {call.cacheKey}
             /\ pc' = "done"
             /\ outcome' = Resolve(cache'[call.cacheKey].v)
             /\ (call.op = "generateNetworkMap")
                   => /\ pc = "loop"
                      /\ ~LoopContinues
                      /\ cache'[call.cacheKey].v.nodes = networkMap.nodes
                      /\ cache'[call.cacheKey].v.edges = networkMap.edges]_vars
  /\ [][(LookupStep /\ outcome'.kind = "resolved")
          => /\ call'.cacheKey \in DOMAIN cache
             /\ outcome'.value = cache[call'.cacheKey].v]_vars

\* C24 witness: a finished map is in the cache under the key for which the
\* other caller is still building.
StoredWhilePeerBuilds ==
  /\ pc = "done"
  /\ call.op = "generateNetworkMap"
  /\ call.depth = 2
  /\ call.cacheKey \in DOMAIN cache
  /\ outcome = Resolve(cache[call.cacheKey].v)
  /\ peer.pc \in {"loop", "expand"}
  /\ peer.call.cacheKey = call.cacheKey
  /\ peer.networkMap.nodes # <<>>

\* ------------------------------------------------------- depth 0, no edges ----
FetchedSeed == formatNodeForMap(fetch["profile"].val)

\* C13 (as stated): a build with depth 0 returns the seed as its node, only
\* edges that leave the seed, and expanded the seed alone.
DepthZeroEmitsSeed ==
  (GenerateDone /\ call.depth = 0 /\ outcome.kind = "resolved"
     /\ fetch["profile"].st = "resolved")
     => /\ outcome.value.nodes # <<>>
        /\ outcome.value.nodes[1] = FetchedSeed
        /\ \A k \in 1..Len(outcome.value.edges) :
              outcome.value.edges[k].source = FetchedSeed.id
        /\ expansions = 1

\* C13: a build with depth 0 dequeues the seed and discards it: the map has
\* no nodes and no edges, no connections fetch was issued, nothing is left in
\* the queue, and only the center node carries the seed.
DepthZeroEmitsNothing ==
  /\ [][(pc = "loop" /\ call.depth = 0 /\ queue # <<>>)
          => (queue' = <<>> /\ networkMap' = networkMap /\ pc' = "loop"
              /\ fetch' = fetch)]_vars
  /\ []((GenerateDone /\ call.depth = 0 /\ outcome.kind = "resolved"
           /\ fetch["profile"].st = "resolved")
          => /\ outcome.value.nodes = <<>>
             /\ outcome.value.edges = <<>>
             /\ outcome.value.center_node = FetchedSeed
             /\ expansions = 0
             /\ fetchCount = 1
             /\ queue = <<>>)

\* C13 witness: a build with depth 0 and room for nodes fetched its seed and
\* resolved.
DepthZeroResolved ==
  /\ GenerateDone
  /\ call.depth = 0
  /\ call.maxNodes > 1
  /\ outcome.kind = "resolved"
  /\ fetch["profile"].st = "resolved"
  /\ outcome.value.metadata.total_nodes = 0

SeedFetchEmpty ==
  fetch["connections"] = Resolved([of |-> centerProfile.id, items |-> <<>>])

\* C14: with depth 2 and maxNodes 10, when the connections fetch of the seed
\* returns an empty list the map is exactly the seed node and no edge, the
\* queue is empty, and the call resolves with that map.
SeedWithoutConnections ==
  /\ [][(pc = "expand" /\ call.depth = 2 /\ call.maxNodes = 10
           /\ cur.profile.id = centerProfile.id /\ SeedFetchEmpty')
          => (networkMap'.nodes = <<FetchedSeed>> /\ networkMap'.edges = <<>>
              /\ queue' = <<>>)]_vars
  /\ []((GenerateDone /\ call.depth = 2 /\ call.maxNodes = 10
           /\ outcome.kind = "resolved" /\ SeedFetchEmpty)
          => /\ outcome.value.nodes = <<FetchedSeed>>
             /\ outcome.value.edges = <<>>
             /\ outcome.value.metadata.total_nodes = 1
             /\ outcome.value.metadata.total_edges = 0)

\* C14 witness: such a call resolved after exactly two fetches, the seed
\* profile and its empty connection list.
LoneSeedResolved ==
  /\ GenerateDone
  /\ call.depth = 2
  /\ call.maxNodes = 10
  /\ outcome.kind = "resolved"
  /\ SeedFetchEmpty
  /\ fetchCount = 2

\* ------------------------------------------------------ edges and fetches ----
EndsOf(edges) == [k \in 1..Len(edges) |-> <<edges[k].source, edges[k].target>>]
ConnectionsResolved == fetch["connections"].st = "resolved"
ConnectionsPending == fetch["connections"].st = "pending"

\* C15: when the connections fetch of the expanded node resolves, edges grows
\* by exactly one edge per returned connection, in order, from the expanded
\* node to the connection, whatever becomes of the connection; no other step
\* of a build touches edges.
OneEdgePerConnection ==
  /\ [][(pc = "expand" /\ ConnectionsResolved')
          => LET items == fetch'["connections"].val.items
             IN EndsOf(networkMap'.edges)
                  = EndsOf(networkMap.edges)
                      \o [i \in 1..Len(items) |-> <<cur.profile.id, items[i]>>]]_vars
  /\ [][(Building /\ pc' # "idle" /\ ~(pc = "expand" /\ ConnectionsResolved'))
          => networkMap'.edges = networkMap.edges]_vars

\* C15 witness: a fetch returned the expanded node itself, already seen, and
\* a second connection that was enqueued, and both got their edge.
EdgeForSeenConnection ==
  /\ pc = "loop"
  /\ ConnectionsResolved
  /\ LET r == fetch["connections"].val
     IN /\ Len(r.items) = 2
        /\ r.items[1] = r.of
        /\ r.items[2] # r.of
        /\ \E k \in 1..Len(queue) : queue[k].profile.id = r.items[2]
        /\ Len(networkMap.edges) >= 2
        /\ networkMap.edges[Len(networkMap.edges) - 1].target = r.of
        /\ networkMap.edges[Len(networkMap.edges)].target = r.items[2]

\* C16: during a build a connections fetch is outstanding exactly while the
\* builder waits for it; no entry leaves the queue and no fetch is issued
\* while one is outstanding; and the loop resumes only once the fetch has
\* failed or has resolved and every returned connection has its edge.
FetchesSequential ==
  /\ [](Building => (ConnectionsPending <=> pc = "expand"))
  /\ [][(Building /\ Len(queue') < Len(queue)) => ~ConnectionsPending]_vars
  /\ [][(Building /\ fetchCount' > fetchCount)
          => \A sl \in Slots : fetch[sl].st # "pending"]_vars
  /\ [][(pc = "expand" /\ pc' = "loop")
          => \/ fetch'["connections"].st = "rejected"
             \/ /\ ConnectionsResolved'
                /\ Len(networkMap'.edges)
                     = Len(networkMap.edges) + Len(fetch'["connections"].val.items)]_vars

\* C16 witness: the second fetch of a build is outstanding while an entry
\* waits in the queue.
FetchOutstandingQueueWaiting ==
  /\ pc = "expand"
  /\ ConnectionsPending
  /\ queue # <<>>
  /\ expansions >= 2

\* C23: within one build a profile id is expanded at most once, however
\* often it was enqueued: the entry expanded is not in processedNodes, is put
\* there by the expansion, and processedNodes never loses an id while the
\* build runs.
ExpandedAtMostOnce ==
  [][/\ (expansions' = expansions + 1)
          => /\ cur'.profile.id \notin processedNodes
             /\ cur'.profile.id \in processedNodes'
     /\ (Building /\ Building') => processedNodes \subseteq processedNodes']_vars

\* C23 witness: the id expanded last is at the head of the queue once more,
\* within the depth, and the loop goes on.
RequeuedIdAtHead ==
  /\ pc = "loop"
  /\ LoopContinues
  /\ expansions >= 2
  /\ Head(queue).profile.id = cur.profile.id
  /\ Head(queue).currentDepth < call.depth

\* C28: in every map returned the source of every edge is the id of a node;
\* and when the loop ended on an empty queue the target of every edge is the
\* id of a node too.
EdgeEndsAreNodes ==
  (GenerateDone /\ outcome.kind = "resolved")
     => LET edges == outcome.value.edges
            ids == NodeIdsOf(outcome.value.nodes)
        IN /\ \A i \in 1..Len(edges) : edges[i].source \in ids
           /\ queue = <<>> => \A i \in 1..Len(edges) : edges[i].target \in ids

\* C28 witness: a map of two expansions is returned after the queue ran
\* empty below maxNodes.
MapReturnedOnEmptyQueue ==
  /\ GenerateDone
  /\ outcome.kind = "resolved"
  /\ queue = <<>>
  /\ expansions >= 2
  /\ Len(outcome.value.edges) >= 2
  /\ Len(outcome.value.nodes) < call.maxNodes

\* the ids within k hops of the ids in from, along the edges
RECURSIVE WithinHops(_, _, _)
WithinHops(edges, from, k) ==
  IF k = 0 THEN from
  ELSE WithinHops(edges,
         from \cup {edges[i].target : i \in {j \in 1..Len(edges) : edges[j].source \in from}},
         k - 1)

\* C29: the traversal is breadth-first and bounded by depth: entries are
\* expanded in non-decreasing order of currentDepth, only entries with
\* currentDepth < depth are expanded, and every node of the map returned is
\* within depth hops of the seed along the edges of the map.
BreadthFirstDepthBounded ==
  /\ [][(expansions' = expansions + 1)
          => /\ cur'.currentDepth < call.depth
             /\ expansions > 0 => cur'.currentDepth >= cur.currentDepth]_vars
  /\ []((GenerateDone /\ outcome.kind = "resolved")
          => NodeIdsOf(outcome.value.nodes)
                \subseteq WithinHops(outcome.value.edges, {centerProfile.id}, call.depth))

\* C29 witness: a map built to depth 2 is returned with a node two hops, not
\* one, from the seed.
NodeAtFullDepth ==
  /\ GenerateDone
  /\ outcome.kind = "resolved"
  /\ call.depth = 2
  /\ expansions >= 2
  /\ ~(NodeIdsOf(outcome.value.nodes)
         \subseteq WithinHops(outcome.value.edges, {centerProfile.id}, 1))

\* ============================================ the functions by themselves ====
\* A pure function of the service is called on one input: call holds the
\* input, the step evaluates the function, outcome holds what it returned
\* or that it threw.
InitWith(inputs) ==
  /\ now = 0
  /\ cache = EmptyCache
  /\ call \in inputs
  /\ pc = "called"
  /\ fetch = NoFetches
  /\ centerProfile = NoProfile
  /\ networkMap = EmptyMap
  /\ processedNodes = {}
  /\ queue = <<>>
  /\ cur = NoEntry
  /\ outcome = NoOutcome
  /\ fetchCount = 0
  /\ expansions = 0
  /\ failed = {}
  /\ calls = 0
  /\ inserted = EmptyCache
  /\ cacheBroken = FALSE
  /\ adapter = NewServices
  /\ peer = IdleFrame

Evaluate(op, result) ==
  /\ pc = "called"
  /\ call.op = op
  /\ outcome' = result
  /\ pc' = "done"
  /\ UNCHANGED <<now, cache, call, fetch, buildVars, fetchCount, calls, inserted,
                 cacheBroken, adapter, peer>>

\* ---------------------------------------------------------- cache keys ----
KeyPlatforms == {"twitter", "Twitter", "linkedin"}
KeyIdentifiers == {"a", "a_b", "b", "b_c", "c"}

KeyRequests ==
  {[op |-> "analyzeUserProfile", platform |-> p, identifier |-> i] :
      p \in KeyPlatforms, i \in KeyIdentifiers}
  \cup {[op |-> "findCrossplatformConnections", twitterUser |-> t, linkedinUser |-> l] :
      t \in KeyIdentifiers, l \in KeyIdentifiers}
  \cup {[op |-> "generateNetworkMap", platform |-> p, identifier |-> i,
         depth |-> d, maxNodes |-> m] :
      p \in KeyPlatforms, i \in KeyIdentifiers, d \in {1}, m \in {2, 12}}

KeyInputs == {[op |-> "cacheKey", r1 |-> a, r2 |-> b] : a \in KeyRequests, b \in KeyRequests}

\* the cacheKey of lines 25, 91 and 156
CacheKeyOf(r) ==
  CASE r.op = "analyzeUserProfile" -> AnalysisKey(r.platform, r.identifier)
    [] r.op = "findCrossplatformConnections" -> CrossplatformKey(r.twitterUser, r.linkedinUser)
    [] r.op = "generateNetworkMap" ->
         NetworkMapKey(r.platform, r.identifier, r.depth, r.maxNodes)

EvalCacheKeys ==
  Evaluate("cacheKey", Resolve([k1 |-> CacheKeyOf(call.r1), k2 |-> CacheKeyOf(call.r2)]))

\* the request as the platform dispatch sees it
Dispatched(r) ==
  IF r.op = "findCrossplatformConnections" THEN r
  ELSE [r EXCEPT !.platform = ToLowerCase(@)]

KeysDone == pc = "done" /\ call.op = "cacheKey"

\* C11: two requests that differ in an input have different cache keys.
KeysInjective ==
  (KeysDone /\ call.r1 # call.r2) => outcome.value.k1 # outcome.value.k2

\* C12: two requests that are the same after the platform dispatch has
\* lower-cased the platform have the same cache key.
SamePlatformSameKey ==
  (KeysDone /\ Dispatched(call.r1) = Dispatched(call.r2))
     => outcome.value.k1 = outcome.value.k2

\* -------------------------------------------------------------- scoring ----
MaxFollowers == 2

\* A field of a profile is null (or missing) or a string, a sequence of
\* characters.
NullStr == [null |-> TRUE, s |-> <<>>]
Str(chars) == [null |-> FALSE, s |-> chars]
SomeText == Str(<<"x">>)
Truthy(str) == ~str.null /\ str.s # <<>>

\* created_at is null or a date, held as the number of days it lies back
NullDate == [null |-> TRUE, daysAgo |-> 0]
Date(d) == [null |-> FALSE, daysAgo |-> d]

MathMin(a, b) == IF a < b THEN a ELSE b
MathMax(a, b) == IF a > b THEN a ELSE b

\* Math.round of the fraction num / den (den > 0): halves round up
MathRound(num, den) == (2 * num + den) \div (2 * den)

Points(cond, n) == IF cond THEN n ELSE 0

\* lines 923-928
getDaysSinceCreation(createdAt) ==
  IF createdAt.null THEN 365 ELSE MathMax(1, createdAt.daysAgo)

\* a strength that is rounded and not capped
calculateTwitterProfileStrength_NoClamp(profile) ==
  LET completeness ==
        Points(Truthy(profile.name), 10) + Points(Truthy(profile.bio), 15)
        + Points(Truthy(profile.location), 10)
        + Points(Truthy(profile.external_url), 10)
        + Points(Truthy(profile.profile_image_url), 5)
        + Points(profile.verified, 20)
      followerRatio1000 == MathMin(profile.followers, 30 * 1000)
      postActivity1000 == MathMin(10 * profile.posts, 20 * 1000)
  IN MathRound(completeness * 1000 + followerRatio1000 + postActivity1000, 1000)

\* lines 438-458; the score is held in thousandths until it is rounded
calculateTwitterProfileStrength(profile) ==
  LET completeness ==
        Points(Truthy(profile.name), 10) + Points(Truthy(profile.bio), 15)
        + Points(Truthy(profile.location), 10)
        + Points(Truthy(profile.external_url), 10)
        + Points(Truthy(profile.profile_image_url), 5)
        + Points(profile.verified, 20)
      followerRatio1000 == MathMin(profile.followers, 30 * 1000)
      postActivity1000 == MathMin(10 * profile.posts, 20 * 1000)
  IN MathMin(100,
       MathRound(completeness * 1000 + followerRatio1000 + postActivity1000, 1000))

\* a strength whose location test is negated
calculateLinkedInProfileStrength_NegatedLocation(profile) ==
  LET completeness ==
        Points(Truthy(profile.name), 10) + Points(Truthy(profile.headline), 15)
        + Points(Truthy(profile.summary), 20)
        + Points(~Truthy(profile.location), 10)
        + Points(Truthy(profile.industry), 15)
        + Points(Truthy(profile.profile_image_url), 5)
      connectionScore10 == MathMin(profile.connections, 25 * 10)
  IN MathMin(100, MathRound(completeness * 10 + connectionScore10, 10))

\* lines 460-476; the score is held in tenths until it is rounded
calculateLinkedInProfileStrength(profile) ==
  LET completeness ==
        Points(Truthy(profile.name), 10) + Points(Truthy(profile.headline), 15)
        + Points(Truthy(profile.summary), 20)
        + Points(Truthy(profile.location), 10)
        + Points(Truthy(profile.industry), 15)
        + Points(Truthy(profile.profile_image_url), 5)
      connectionScore10 == MathMin(profile.connections, 25 * 10)
  IN MathMin(100, MathRound(completeness * 10 + connectionScore10, 10))

\* lines 478-511; a ratio a / b (b > 0) exceeds n when a > n * b
calculateTwitterEngagement(profile) ==
  LET ratioNum == profile.followers
      ratioDen == IF profile.following > 0 THEN profile.following ELSE 1
      days == MathMax(1, getDaysSinceCreation(profile.created_at))
      ratioScore == IF ratioNum > 10 * ratioDen THEN 30
                    ELSE IF ratioNum > ratioDen THEN 20 ELSE 10
      frequencyScore == IF profile.posts > 5 * days THEN 20
                        ELSE IF profile.posts > days THEN 30
                        ELSE IF 10 * profile.posts > days THEN 25 ELSE 10
      likesScore == IF profile.posts > 0 /\ profile.likes > 10 * profile.posts THEN 20
                    ELSE IF profile.posts > 0 /\ profile.likes > profile.posts THEN 15
                    ELSE 5
  IN MathMin(100, MathRound(ratioScore + frequencyScore
                              + Points(profile.verified, 20) + likesScore, 1))

RECURSIVE SumFollowers(_)
SumFollowers(followers) ==
  IF followers = <<>> THEN 0 ELSE Head(followers).followers + SumFollowers(Tail(followers))

\* lines 513-537; connections is null, or an object whose followers list may
\* be missing; the score is held in tenths until it is rounded
calculateNetworkReach(connections) ==
  IF connections.null \/ ~connections.hasFollowers THEN 0
  ELSE
    LET followers == connections.followers
        totalConnections == IF connections.count # 0 THEN connections.count
                            ELSE Len(followers)
        \* _.meanBy of an empty list is NaN, and NaN || 0 is 0
        sum == SumFollowers(followers)
        n == Len(followers)
        quality == IF n > 0 /\ sum > 10000 * n THEN 30
                   ELSE IF n > 0 /\ sum > 1000 * n THEN 20
                   ELSE IF n > 0 /\ sum > 100 * n THEN 10 ELSE 5
        verifiedCount == Cardinality({i \in 1..n : followers[i].verified})
    IN MathMin(100, MathRound(MathMin(totalConnections, 40 * 10) + quality * 10
                                + MathMin(verifiedCount * 5, 30) * 10, 10))

\* Math.round of a sum of double products that is tenths / 10 in exact
\* arithmetic: 0.3 and 0.4 are not doubles, so a sum that is exactly a half
\* comes out just below the half for some operands (1 * 0.3 + 0 * 0.4
\* + 24 * 0.3 is 7.499999999999999) and is then rounded down; away from a
\* half the error is far too small to matter. Both outcomes of a half are
\* kept.
RoundedDoubleSum(tenths) ==
  IF tenths % 10 = 5 THEN {tenths \div 10, tenths \div 10 + 1}
  ELSE {MathRound(tenths, 10)}

\* a blend with the weights of strength and engagement exchanged
calculateInfluenceScore_WeightsSwapped(profile, connections) ==
  LET profileStrength == calculateTwitterProfileStrength(profile)
      engagementPotential == calculateTwitterEngagement(profile)
      networkReach == calculateNetworkReach(connections)
  IN RoundedDoubleSum(profileStrength * 4 + engagementPotential * 3 + networkReach * 3)

\* lines 539-549: the weights 0.3, 0.4, 0.3 in tenths; the values the call
\* can return
calculateInfluenceScore(profile, connections) ==
  LET profileStrength == calculateTwitterProfileStrength(profile)
      engagementPotential == calculateTwitterEngagement(profile)
      networkReach == calculateNetworkReach(connections)
  IN RoundedDoubleSum(profileStrength * 3 + engagementPotential * 4 + networkReach * 3)

OptionalTexts == {NullStr, SomeText}

TwitterProfiles ==
  [name : OptionalTexts, bio : {NullStr, Str(<<>>), SomeText},
   location : OptionalTexts, external_url : OptionalTexts,
   profile_image_url : OptionalTexts, verified : BOOLEAN,
   followers : {0, 500, 29500, 1000000}, following : {0, 100},
   posts : {0, 50, 99999}, likes : {0, 501},
   created_at : {NullDate, Date(30)}]

LinkedInProfiles ==
  [name : OptionalTexts, headline : OptionalTexts, summary : OptionalTexts,
   location : OptionalTexts, industry : OptionalTexts,
   profile_image_url : OptionalTexts, connections : {0, 5, 15, 250, 30000}]

FollowerEntries == [followers : {0, 1001, 20000}, verified : BOOLEAN]

NullConnections == [null |-> TRUE, hasFollowers |-> FALSE, count |-> 0, followers |-> <<>>]

ConnectionSets ==
  {NullConnections}
  \cup {[null |-> FALSE, hasFollowers |-> FALSE, count |-> c, followers |-> <<>>] :
          c \in {0, 1000}}
  \cup {[null |-> FALSE, hasFollowers |-> TRUE, count |-> c, followers |-> f] :
          c \in {0, 1000}, f \in SeqsUpTo(FollowerEntries, MaxFollowers)}

\* profiles that are complete or bare
InfluenceProfiles ==
  {p \in TwitterProfiles :
      /\ p.name = p.location /\ p.name = p.external_url
      /\ p.name = p.profile_image_url /\ Truthy(p.name) = Truthy(p.bio)
      /\ p.bio # Str(<<>>)
      /\ p.following = 100 /\ p.likes = 0 /\ p.created_at = NullDate}

ScoreInputs ==
  {[op |-> "twitterProfileScores", profile |-> p] : p \in TwitterProfiles}
  \cup {[op |-> "calculateLinkedInProfileStrength", profile |-> p] : p \in LinkedInProfiles}
  \cup {[op |-> "calculateNetworkReach", connections |-> c] : c \in ConnectionSets}
  \cup {[op |-> "calculateInfluenceScore", profile |-> p, connections |-> c] :
          p \in InfluenceProfiles, c \in ConnectionSets}

\* lines 389-390: the two scores of a Twitter profile
EvalTwitterProfileScores ==
  Evaluate("twitterProfileScores",
           Resolve([profile_strength |-> calculateTwitterProfileStrength(call.profile),
                    engagement_potential |-> calculateTwitterEngagement(call.profile)]))

EvalLinkedInProfileStrength ==
  Evaluate("calculateLinkedInProfileStrength",
           Resolve(calculateLinkedInProfileStrength(call.profile)))

EvalNetworkReach ==
  Evaluate("calculateNetworkReach", Resolve(calculateNetworkReach(call.connections)))

EvalInfluenceScore ==
  /\ pc = "called"
  /\ call.op = "calculateInfluenceScore"
  /\ \E score \in calculateInfluenceScore(call.profile, call.connections) :
        Evaluate("calculateInfluenceScore", Resolve(score))

Evaluated(op) == pc = "done" /\ call.op = op /\ outcome.kind = "resolved"

\* ---------------------------------------------------------- consistency ----
\* the characters that are neither word characters nor whitespace
Punctuation == {"!", ",", "."}

LowerChar(c) ==
  CASE c = "A" -> "a" [] c = "B" -> "b" [] c = "L" -> "l" [] OTHER -> c

LowerCased(chars) == [i \in 1..Len(chars) |-> LowerChar(chars[i])]

IsWordOrSpace(c) == c \notin Punctuation

RECURSIVE TrimStart(_)
TrimStart(chars) ==
  IF chars # <<>> /\ Head(chars) = " " THEN TrimStart(Tail(chars)) ELSE chars

RECURSIVE TrimEnd(_)
TrimEnd(chars) ==
  IF chars # <<>> /\ chars[Len(chars)] = " "
  THEN TrimEnd(SubSeq(chars, 1, Len(chars) - 1)) ELSE chars

\* lines 893-900: str?.toLowerCase().replace(/[^\w\s]/g, "").trim() || ""
normalizeString(str) ==
  IF str.null THEN <<>>
  ELSE TrimEnd(TrimStart(SelectSeq(LowerCased(str.s), IsWordOrSpace)))

\* String.prototype.includes
Includes(chars, part) ==
  \E i \in 0..(Len(chars) - Len(part)) : SubSeq(chars, i + 1, i + Len(part)) = part

\* split(" ")[0]
FirstToken(chars) ==
  IF \E i \in 1..Len(chars) : chars[i] = " "
  THEN SubSeq(chars, 1, (CHOOSE i \in 1..Len(chars) :
                           chars[i] = " " /\ \A j \in 1..(i - 1) : chars[j] # " ") - 1)
  ELSE chars

\* the non-empty items of split(/\s+/)
Words(chars) ==
  {SubSeq(chars, i, j) : <<i, j>> \in
     {ij \in (1..Len(chars)) \X (1..Len(chars)) :
        /\ ij[1] <= ij[2]
        /\ \A k \in ij[1]..ij[2] : chars[k] # " "
        /\ (ij[1] = 1 \/ chars[ij[1] - 1] = " ")
        /\ (ij[2] = Len(chars) \/ chars[ij[2] + 1] = " ")}}

\* lines 902-910
isNameSimilar(name1, name2) ==
  LET norm1 == normalizeString(name1)
      norm2 == normalizeString(name2)
  IN Includes(norm1, FirstToken(norm2)) \/ Includes(norm2, FirstToken(norm1))

\* lines 912-921
isLocationSimilar(loc1, loc2) ==
  \E word \in Words(normalizeString(loc1)) :
     word \in Words(normalizeString(loc2)) /\ Len(word) > 2

\* a score that compares the locations as they are written
calculateConsistencyScore_RawLocation(twitterProfile, linkedinProfile) ==
  LET nameScore ==
        IF normalizeString(twitterProfile.name) = normalizeString(linkedinProfile.name)
        THEN 25
        ELSE IF isNameSimilar(twitterProfile.name, linkedinProfile.name) THEN 15
        ELSE 0
      locationScore ==
        IF Truthy(twitterProfile.location) /\ Truthy(linkedinProfile.location)
        THEN IF twitterProfile.location = linkedinProfile.location
             THEN 20
             ELSE IF isLocationSimilar(twitterProfile.location, linkedinProfile.location)
             THEN 10 ELSE 0
        ELSE 0
  IN MathMin(100,
       nameScore + locationScore
       + Points(Truthy(twitterProfile.profile_image_url)
                  /\ Truthy(linkedinProfile.profile_image_url), 15)
       + Points(Truthy(twitterProfile.bio) /\ Truthy(linkedinProfile.summary), 15)
       + Points(Truthy(twitterProfile.external_url) /\ Truthy(linkedinProfile.website), 15))

\* lines 676-722
calculateConsistencyScore(twitterProfile, linkedinProfile) ==
  LET nameScore ==
        IF normalizeString(twitterProfile.name) = normalizeString(linkedinProfile.name)
        THEN 25
        ELSE IF isNameSimilar(twitterProfile.name, linkedinProfile.name) THEN 15
        ELSE 0
      locationScore ==
        IF Truthy(twitterProfile.location) /\ Truthy(linkedinProfile.location)
        THEN IF normalizeString(twitterProfile.location)
                  = normalizeString(linkedinProfile.location)
             THEN 20
             ELSE IF isLocationSimilar(twitterProfile.location, linkedinProfile.location)
             THEN 10 ELSE 0
        ELSE 0
  IN MathMin(100,
       nameScore + locationScore
       + Points(Truthy(twitterProfile.profile_image_url)
                  /\ Truthy(linkedinProfile.profile_image_url), 15)
       + Points(Truthy(twitterProfile.bio) /\ Truthy(linkedinProfile.summary), 15)
       + Points(Truthy(twitterProfile.external_url) /\ Truthy(linkedinProfile.website), 15))

\* null, "", "!", "Ann", "ann!", " ann lee ", "bob"
Texts ==
  {NullStr, Str(<<>>), Str(<<"!">>), Str(<<"A", "n", "n">>),
   Str(<<"a", "n", "n", "!">>),
   Str(<<" ", "a", "n", "n", " ", "l", "e", "e", " ">>),
   Str(<<"b", "o", "b">>)}

ConsistencyInputs ==
  {[op |-> "calculateConsistencyScore",
    twitterProfile |-> [name |-> tn, location |-> tl, profile_image_url |-> to,
                        bio |-> to, external_url |-> to],
    linkedinProfile |-> [name |-> ln, location |-> ll, profile_image_url |-> lo,
                         summary |-> lo, website |-> lo]] :
      tn \in Texts, tl \in Texts, ln \in Texts, ll \in Texts,
      to \in OptionalTexts, lo \in OptionalTexts}

EvalConsistencyScore ==
  Evaluate("calculateConsistencyScore",
           Resolve(calculateConsistencyScore(call.twitterProfile, call.linkedinProfile)))

\* C17: for profiles and connection sets with non-negative counts, each of
\* the six scores is an integer from 0 to 100.
ScoresInRange ==
  /\ Evaluated("twitterProfileScores")
       => /\ outcome.value.profile_strength \in 0..100
          /\ outcome.value.engagement_potential \in 0..100
  /\ Evaluated("calculateLinkedInProfileStrength") => outcome.value \in 0..100
  /\ Evaluated("calculateNetworkReach") => outcome.value \in 0..100
  /\ Evaluated("calculateInfluenceScore") => outcome.value \in 0..100
  /\ Evaluated("calculateConsistencyScore") => outcome.value \in 0..100

\* C17 witness: a verified, complete profile with large counts, whose points
\* add up to more than 100, was scored 100.
StrengthCapped ==
  /\ Evaluated("twitterProfileScores")
  /\ \A f \in {"name", "bio", "location", "external_url", "profile_image_url"} :
        Truthy(call.profile[f])
  /\ call.profile.verified
  /\ call.profile.followers >= 30 * 1000
  /\ call.profile.posts >= 20 * 100
  /\ outcome.value.profile_strength = 100

OptionalFields == {"bio", "location", "profile_image_url"}

\* the profile with the field f given a value
WithField(profile, f) ==
  IF f \in DOMAIN profile THEN [profile EXCEPT ![f] = SomeText]
  ELSE [g \in DOMAIN profile \cup {f} |-> IF g = f THEN SomeText ELSE profile[g]]

\* C18: the strength of a profile that lacks bio, location or profile image
\* is not above the strength of the same profile with that field given, on
\* Twitter and on LinkedIn.
StrengthMonotone ==
  /\ Evaluated("twitterProfileScores")
       => \A f \in OptionalFields :
             ~Truthy(call.profile[f])
               => calculateTwitterProfileStrength(WithField(call.profile, f))
                    >= outcome.value.profile_strength
  /\ Evaluated("calculateLinkedInProfileStrength")
       => \A f \in OptionalFields :
             (f \notin DOMAIN call.profile \/ ~Truthy(call.profile[f]))
               => calculateLinkedInProfileStrength(WithField(call.profile, f))
                    >= outcome.value

\* C18 witness: a profile without bio was scored below 100, and the bio
\* would raise its score by the 15 points of line 443.
BioWouldAdd ==
  /\ Evaluated("twitterProfileScores")
  /\ call.profile.bio = NullStr
  /\ outcome.value.profile_strength < 85
  /\ calculateTwitterProfileStrength(WithField(call.profile, "bio"))
       = outcome.value.profile_strength + 15

SameNormalized(a, b) == normalizeString(a) = normalizeString(b)

\* C19 (as stated): two profiles whose normalized names are equal and whose
\* normalized locations are equal score at least 45, the empty normalized
\* value of an absent field included.
SameNameAndLocationScores45 ==
  (Evaluated("calculateConsistencyScore")
     /\ SameNormalized(call.twitterProfile.name, call.linkedinProfile.name)
     /\ SameNormalized(call.twitterProfile.location, call.linkedinProfile.location))
     => outcome.value >= 45

\* C19: two profiles whose normalized names are equal, the empty value of
\* an absent name included, and whose locations are both given (non-empty)
\* and equal after normalisation, score at least 45; with equal normalized
\* names alone they score at least 25.
SameNameAndGivenLocationScores45 ==
  (Evaluated("calculateConsistencyScore")
     /\ SameNormalized(call.twitterProfile.name, call.linkedinProfile.name))
     => /\ outcome.value >= 25
        /\ (/\ Truthy(call.twitterProfile.location)
            /\ Truthy(call.linkedinProfile.location)
            /\ SameNormalized(call.twitterProfile.location,
                              call.linkedinProfile.location))
             => outcome.value >= 45

\* C19 witness: names and locations that differ as written and are equal
\* after normalisation, and nothing else to score, gave exactly 45.
NormalizedMatchScored ==
  /\ Evaluated("calculateConsistencyScore")
  /\ call.twitterProfile.name # call.linkedinProfile.name
  /\ call.twitterProfile.location # call.linkedinProfile.location
  /\ SameNormalized(call.twitterProfile.name, call.linkedinProfile.name)
  /\ SameNormalized(call.twitterProfile.location, call.linkedinProfile.location)
  /\ Truthy(call.twitterProfile.location)
  /\ Truthy(call.linkedinProfile.location)
  /\ normalizeString(call.twitterProfile.name) # <<>>
  /\ outcome.value = 45

\* ------------------------------------------- recommendations and tips ----
\* a property read of null or undefined
TypeError == Reject("TypeError")

\* lines 805-835; connections is an object
generateTwitterRecommendations(profile, connections) ==
  LET verifiedConnections ==
        IF connections.hasFollowers
        THEN Cardinality({i \in 1..Len(connections.followers) :
                            connections.followers[i].verified})
        ELSE 0
  IN Resolve({r \in {"bio", "ratio", "frequency", "verified"} :
        \/ r = "bio" /\ ~Truthy(profile.bio)
        \/ r = "ratio" /\ profile.followers < profile.following
        \/ r = "frequency" /\ profile.posts < 100
        \/ r = "verified" /\ verifiedConnections < 5})

\* lines 837-863: profile.headline.includes("|") at line 856
generateLinkedInRecommendations(profile) ==
  IF profile.headline.null THEN TypeError
  ELSE Resolve({r \in {"summary", "network", "industry", "headline"} :
        \/ r = "summary" /\ ~Truthy(profile.summary)
        \/ r = "network" /\ profile.connections < 50
        \/ r = "industry" /\ ~Truthy(profile.industry)
        \/ r = "headline" /\ ~Includes(profile.headline.s, <<"|">>)})

\* lines 865-875; a quotient posts / days is below 0.5 when 2 * posts < days
generateTwitterOptimizationTips(profile) ==
  Resolve({t \in {"location", "url", "consistency"} :
     \/ t = "location" /\ ~Truthy(profile.location)
     \/ t = "url" /\ ~Truthy(profile.external_url)
     \/ t = "consistency"
          /\ 2 * profile.posts < getDaysSinceCreation(profile.created_at)})

\* lines 877-890: profile.headline.length at line 886
generateLinkedInOptimizationTips(profile) ==
  IF profile.headline.null THEN TypeError
  ELSE Resolve({t \in {"connections", "summary", "headline"} :
        \/ t = "connections" /\ profile.connections < 500
        \/ t = "summary" /\ ~Truthy(profile.summary)
        \/ t = "headline" /\ Len(profile.headline.s) < 50})

Professional == <<"p", "r", "o", "f", "e", "s", "s", "i", "o", "n", "a", "l">>

\* lines 748-785: twitterData.profile.bio.includes("professional") at line
\* 774 is evaluated when the headline is truthy
findCrossPlatformOpportunities(twitterData, linkedinData) ==
  IF Truthy(linkedinData.profile.headline) /\ twitterData.profile.bio.null
  THEN TypeError
  ELSE Resolve({o \in {"content_strategy", "network_building", "professional_branding"} :
        \/ o = "content_strategy"
             /\ twitterData.profile.posts > linkedinData.profile.posts
        \/ o = "network_building"
             /\ twitterData.connections.count > linkedinData.connections.count * 2
        \/ o = "professional_branding"
             /\ Truthy(linkedinData.profile.headline)
             /\ ~Includes(twitterData.profile.bio.s, Professional)})

\* null, "", "a", "a|b" and a headline of 50 characters
Headlines ==
  {NullStr, Str(<<>>), Str(<<"a">>), Str(<<"a", "|", "b">>), Str([i \in 1..50 |-> "a"])}

Bios == {NullStr, Str(<<>>), SomeText, Str(Professional)}

LinkedInAdviceProfiles ==
  [headline : Headlines, summary : OptionalTexts, industry : OptionalTexts,
   connections : {0, 50, 500}, posts : {0, 60}]

AdviceInputs ==
  {[op |-> "generateTwitterRecommendations", profile |-> p, connections |-> c] :
      p \in InfluenceProfiles, c \in {x \in ConnectionSets : ~x.null /\ x.count = 0}}
  \cup {[op |-> "generateTwitterOptimizationTips", profile |-> p] :
          p \in {q \in TwitterProfiles : q.following = 0 /\ q.likes = 0}}
  \cup {[op |-> "generateLinkedInRecommendations", profile |-> p] :
          p \in LinkedInAdviceProfiles}
  \cup {[op |-> "generateLinkedInOptimizationTips", profile |-> p] :
          p \in LinkedInAdviceProfiles}
  \cup {[op |-> "findCrossPlatformOpportunities",
         twitterData |-> [profile |-> [bio |-> b, posts |-> tp],
                          connections |-> [count |-> tc]],
         linkedinData |-> [profile |-> [headline |-> h, posts |-> lp],
                           connections |-> [count |-> lc]]] :
          b \in Bios, tp \in {0, 50}, tc \in {0, 1000},
          h \in Headlines, lp \in {0, 60}, lc \in {0, 400}}

EvalTwitterRecommendations ==
  Evaluate("generateTwitterRecommendations",
           generateTwitterRecommendations(call.profile, call.connections))

EvalTwitterOptimizationTips ==
  Evaluate("generateTwitterOptimizationTips", generateTwitterOptimizationTips(call.profile))

EvalLinkedInRecommendations ==
  Evaluate("generateLinkedInRecommendations", generateLinkedInRecommendations(call.profile))

EvalLinkedInOptimizationTips ==
  Evaluate("generateLinkedInOptimizationTips",
           generateLinkedInOptimizationTips(call.profile))

EvalCrossPlatformOpportunities ==
  Evaluate("findCrossPlatformOpportunities",
           findCrossPlatformOpportunities(call.twitterData, call.linkedinData))

PureOps ==
  {"twitterProfileScores", "calculateLinkedInProfileStrength", "calculateNetworkReach",
   "calculateInfluenceScore", "calculateConsistencyScore",
   "generateTwitterRecommendations", "generateTwitterOptimizationTips",
   "generateLinkedInRecommendations", "generateLinkedInOptimizationTips",
   "findCrossPlatformOpportunities"}

\* C20: a scoring, recommendation or optimisation function called on a
\* profile with null optional fields returns a result and does not throw.
SparseProfileNeverThrows ==
  (pc = "done" /\ call.op \in PureOps) => outcome.kind = "resolved"

\* ten times the blend 0.3 x strength + 0.4 x engagement + 0.3 x reach of the
\* call's arguments
BlendTenths ==
  3 * calculateTwitterProfileStrength(call.profile)
  + 4 * calculateTwitterEngagement(call.profile)
  + 3 * calculateNetworkReach(call.connections)

\* C21: the influence score is an integer nearest to the blend 0.3 x profile
\* strength + 0.4 x engagement + 0.3 x network reach: it lies within one half
\* of the blend.
InfluenceIsNearestInteger ==
  Evaluated("calculateInfluenceScore")
     => /\ 10 * outcome.value - BlendTenths <= 5
        /\ BlendTenths - 10 * outcome.value <= 5

\* C21 witness: a blend of three positive scores that is no integer and no
\* half was rounded up.
BlendRoundedUp ==
  /\ Evaluated("calculateInfluenceScore")
  /\ calculateTwitterProfileStrength(call.profile) > 0
  /\ calculateNetworkReach(call.connections) > 0
  /\ BlendTenths % 10 \in 6..9
  /\ outcome.value = BlendTenths \div 10 + 1

\* ------------------------------------------ LinkedInService.hashString ----
MaxHashLen == 7

\* String.prototype.charCodeAt for the characters used
CharCode(c) ==
  CASE c = "a" -> 97 [] c = "b" -> 98 [] c = "z" -> 122 [] c = "/" -> 47
    [] c = "." -> 46 [] c = "_" -> 95 [] OTHER -> 120

\* A signed 32-bit integer and its two 16-bit halves; the sums and products
\* below are taken half by half and stay far inside the integers.
Hi(n) == (n \div 65536) % 65536
Lo(n) == n % 65536
Int32(hi, lo) ==
  IF hi >= 32768 THEN (hi - 65536) * 65536 + lo ELSE hi * 65536 + lo

\* hash << 5
ShiftLeft5(n) ==
  LET lo == Lo(n) * 32
  IN Int32((Hi(n) * 32 + lo \div 65536) % 65536, lo % 65536)

\* a loop body that forgets to subtract hash
hashChar_NoSubtract(hash, char) ==
  LET shifted == ShiftLeft5(hash)
      lo == Lo(shifted) + char
      hi == Hi(shifted) + lo \div 65536
  IN Int32(hi % 65536, lo % 65536)

\* lines 490-491 of part_004: hash = (hash << 5) - hash + char, which is exact
\* as a double, then hash = hash & hash, which wraps it to 32 bits
hashChar(hash, char) ==
  LET shifted == ShiftLeft5(hash)
      lo == Lo(shifted) - Lo(hash) + char
      hi == Hi(shifted) - Hi(hash) + lo \div 65536
  IN Int32(hi % 65536, lo % 65536)

\* lines 488-492 of part_004: the loop over the characters
RECURSIVE hashLoop(_, _)
hashLoop(hash, chars) ==
  IF chars = <<>> THEN hash ELSE hashLoop(hashChar(hash, CharCode(Head(chars))), Tail(chars))

\* Number.prototype.toString of a 32-bit integer; -n is not taken of the
\* most negative one
Int32ToString(n) ==
  IF n >= 0 THEN NumToString(n)
  ELSE LET m == -(n + 1)
           tens == IF m % 10 = 9 THEN m \div 10 + 1 ELSE m \div 10
       IN "-" \o (IF tens = 0 THEN "" ELSE NumToString(tens)) \o Digit(((m % 10) + 1) % 10)

\* lines 486-494 of part_004
hashString(str) == Int32ToString(hashLoop(0, str))

\* line 86 of part_004
LinkedInProfileKey(profileUrl) == "linkedin_profile_" \o hashString(profileUrl)

HashInputs ==
  {[op |-> "hashString", str |-> str] : str \in SeqsUpTo({"a", "z"}, MaxHashLen)}

\* two calls of hashString and the cache key of line 86
EvalHashString ==
  Evaluate("hashString",
           Resolve([first |-> hashString(call.str), second |-> hashString(call.str),
                    cacheKey |-> LinkedInProfileKey(call.str)]))

\* 31 * n + c wrapped to 32 bits
Times31Plus(n, c) ==
  LET lo == 31 * Lo(n) + c
      hi == 31 * Hi(n) + lo \div 65536
  IN Int32(hi % 65536, lo % 65536)

RECURSIVE Digest31(_)
Digest31(chars) ==
  IF chars = <<>> THEN 0
  ELSE Times31Plus(Digest31(SubSeq(chars, 1, Len(chars) - 1)),
                   CharCode(chars[Len(chars)]))

\* C25: hashString returns the same string on every call, the decimal form
\* of the signed 32-bit integer got by wrapping 31 * hash + charCode to 32
\* bits at every character, and the cache key is made of that string.
HashIs32BitDigest ==
  Evaluated("hashString")
     => /\ outcome.value.first = outcome.value.second
        /\ outcome.value.first = Int32ToString(Digest31(call.str))
        /\ outcome.value.cacheKey = "linkedin_profile_" \o outcome.value.first

\* C25 witness: the hash of a string of seven characters, whose unwrapped
\* value is beyond 32 bits, came out negative.
HashWrapped ==
  /\ Evaluated("hashString")
  /\ Len(call.str) = 7
  /\ Digest31(call.str) < 0
  /\ outcome.value.first = Int32ToString(Digest31(call.str))

PureInputs == KeyInputs \cup ScoreInputs \cup ConsistencyInputs \cup AdviceInputs \cup HashInputs

NextPure ==
  \/ EvalCacheKeys
  \/ EvalTwitterProfileScores
  \/ EvalLinkedInProfileStrength
  \/ EvalNetworkReach
  \/ EvalInfluenceScore
  \/ EvalConsistencyScore
  \/ EvalTwitterRecommendations
  \/ EvalTwitterOptimizationTips
  \/ EvalLinkedInRecommendations
  \/ EvalLinkedInOptimizationTips
  \/ EvalCrossPlatformOpportunities
  \/ EvalHashString

SpecPure == InitWith(PureInputs) /\ [][NextPure]_vars

\* ================================================== the platform adapters ====
\* TwitterService.getUserProfile (twitterService.js 75-165) and
\* LinkedInService.getUserProfile, makeAPIRequest and checkRateLimit
\* (part_004 85-171, 344-373, 496-519), called directly. adapter.clock is
\* Date.now() in milliseconds.
TwitterTTL == 300        \* twitterService.js: NodeCache stdTTL, seconds
LinkedInTTL == 600       \* part_004: NodeCache stdTTL, seconds
RateLimit == 90          \* checkRateLimit: requests per window
RateWindow == 60000      \* checkRateLimit: the window, milliseconds
MaxRequests == 92        \* requests sent in one behaviour
MaxCollisions == 1       \* requests sent in a millisecond that already has one
MaxWaiting == 2          \* callers suspended in checkRateLimit at once
MaxPending == 2          \* requests of other callers in flight at once

MockIds == {"m1", "m2"}

\* a limiter that has just let through one request in each of the last
\* RateLimit milliseconds
BusyServices ==
  [NewServices EXCEPT !.clock = RateLimit - 1,
                      !.requestTracker = 0..(RateLimit - 1),
                      !.sent = [i \in 1..RateLimit |-> i - 1]]

InitServices(services) ==
  /\ now = 0
  /\ cache = EmptyCache
  /\ call = NoCall
  /\ pc = "idle"
  /\ fetch = NoFetches
  /\ centerProfile = NoProfile
  /\ networkMap = EmptyMap
  /\ processedNodes = {}
  /\ queue = <<>>
  /\ cur = NoEntry
  /\ outcome = NoOutcome
  /\ fetchCount = 0
  /\ expansions = 0
  /\ failed = {}
  /\ calls = 0
  /\ inserted = EmptyCache
  /\ cacheBroken = FALSE
  /\ adapter \in services
  /\ peer = IdleFrame

orchVars == <<now, cache, buildVars, fetchCount, inserted, cacheBroken, peer>>

\* cache.set of an adapter cache: the entry expires ttl seconds later
ServiceCacheSet(c, k, v, t, ttl) ==
  [x \in DOMAIN c \cup {k} |-> IF x = k THEN [v |-> v, t |-> t + ttl * 1000] ELSE c[x]]

\* ---------------------------------------------------- checkRateLimit ----
\* part_004 497-505: the entries older than the window are deleted
TrackerCleaned(tracker, t) == {ts \in tracker : ~(ts < t - RateWindow)}

\* part_004 508-515: how long the caller sleeps
WaitTime(tracker, t) ==
  IF Cardinality(tracker) >= RateLimit
  THEN LET oldestRequest == CHOOSE x \in tracker : \A y \in tracker : x <= y
       IN oldestRequest + RateWindow - t
  ELSE 0

\* requestTracker.set(now, true): one key per millisecond
TrackerSet(tracker, t) == tracker \cup {t}

\* checkRateLimit up to its await or, without one, to its end: the request of
\* the caller is sent, or the caller sleeps
CheckRateLimit(a, caller) ==
  LET t == a.clock
      cleaned == TrackerCleaned(a.requestTracker, t)
      waitTime == WaitTime(cleaned, t)
  IN IF waitTime > 0
     THEN [a EXCEPT !.requestTracker = cleaned,
                    !.waiting = Append(@, [now |-> t, wakeAt |-> t + waitTime,
                                           caller |-> caller])]
     ELSE [a EXCEPT !.requestTracker = TrackerSet(cleaned, t),
                    !.sent = Append(@, t),
                    !.pending = IF caller = "api" THEN @ + 1 ELSE @]

WillWait(a) == WaitTime(TrackerCleaned(a.requestTracker, a.clock), a.clock) > 0

RemoveAt(seq, i) == SubSeq(seq, 1, i - 1) \o SubSeq(seq, i + 1, Len(seq))

\* part_004 518 after the sleep: the time read before the sleep is recorded
\* and the request is sent
AfterWait(a, i) ==
  [a EXCEPT !.requestTracker = TrackerSet(@, a.waiting[i].now),
            !.sent = Append(@, a.clock),
            !.waiting = RemoveAt(@, i),
            !.pending = IF a.waiting[i].caller = "api" THEN @ + 1 ELSE @]

Collisions(a) == Len(a.sent) - Cardinality({a.sent[i] : i \in DOMAIN a.sent})

\* some caller calls makeAPIRequest (part_004 344-352)
MakeAPIRequest ==
  /\ Len(adapter.sent) + Len(adapter.waiting) < MaxRequests
  /\ IF WillWait(adapter)
     THEN Len(adapter.waiting) < MaxWaiting
     ELSE /\ adapter.pending < MaxPending
          /\ \/ adapter.clock \notin adapter.requestTracker
             \/ Collisions(adapter) < MaxCollisions
  /\ adapter' = CheckRateLimit(adapter, "api")
  /\ UNCHANGED <<orchVars, call, pc, fetch, outcome, calls>>

\* the timer of a sleeping caller fires
RateLimitWake ==
  /\ \E i \in DOMAIN adapter.waiting :
        /\ adapter.waiting[i].caller = "api"
        /\ adapter.clock >= adapter.waiting[i].wakeAt
        /\ adapter' = AfterWait(adapter, i)
  /\ UNCHANGED <<orchVars, call, pc, fetch, outcome, calls>>

\* the request of some caller is answered (part_004 357-359, 360-372)
ApiResponse ==
  /\ adapter.pending > 0
  /\ adapter' = [adapter EXCEPT !.pending = @ - 1]
  /\ UNCHANGED <<orchVars, call, pc, fetch, outcome, calls>>

\* time passes; a millisecond is stepped over only once a request was made
\* in it
ClockTick(d) ==
  /\ d = 1 => /\ adapter.clock \in adapter.requestTracker
              /\ adapter.clock % RateWindow < MaxRequests
  /\ adapter' = [adapter EXCEPT !.clock = @ + d]
  /\ UNCHANGED <<orchVars, call, pc, fetch, outcome, calls>>

NextRateLimit ==
  \/ MakeAPIRequest
  \/ RateLimitWake
  \/ ApiResponse
  \/ \E d \in {1, RateWindow} : adapter.clock < RateWindow /\ ClockTick(d)

SpecRateLimit == InitServices({NewServices}) /\ [][NextRateLimit]_vars

\* ---------------------------------------------------- getUserProfile ----
\* the profile formatted from the upstream answer, and the fallback of
\* getMockProfile (twitterService.js 320-343, part_004 541-565): a random id
\* and the message of the error caught
FormattedProfile(service, id) ==
  [id |-> id, platform |-> service, fetched_by |-> "SocialCog.io", mock_reason |-> ""]

getMockProfile(service, mockId, errorReason) ==
  [id |-> mockId, platform |-> service, fetched_by |-> "SocialCog.io (Mock)",
   mock_reason |-> errorReason]

\* makeAPIRequest, part_004 360-372: what the caller of makeAPIRequest catches
ApiErrorMessage(status) ==
  CASE status = 429 -> "Rate limit exceeded - please try again later"
    [] status = 401 -> "LinkedIn authentication failed - check access token"
    [] OTHER -> "Request failed"

ProfileCall(service, identifier, cacheKey) ==
  [op |-> "getUserProfile", service |-> service, identifier |-> identifier,
   cacheKey |-> cacheKey]

\* twitterService.js 75-98: cache lookup, then the request to the API
TwitterGetUserProfile(usernameOrId) ==
  LET cacheKey == "profile_" \o usernameOrId
      cached == CacheGet(adapter.twitterCache, cacheKey, adapter.clock)
      looked == CacheAfterGet(adapter.twitterCache, cacheKey, adapter.clock)
  IN /\ pc = "idle"
     /\ calls < MaxCalls
     /\ calls' = calls + 1
     /\ call' = ProfileCall("twitter", usernameOrId, cacheKey)
     /\ adapter' = [adapter EXCEPT !.twitterCache = looked]
     /\ IF cached # Undefined
        THEN /\ pc' = "done"
             /\ outcome' = Resolve(cached)
             /\ fetch' = fetch
        ELSE /\ pc' = "p_upstream"
             /\ outcome' = outcome
             /\ fetch' = [fetch EXCEPT !["profile"] = Pending]
     /\ UNCHANGED orchVars

\* part_004 85-104 and checkRateLimit: cache lookup, then makeAPIRequest,
\* which sends the request or sleeps in checkRateLimit
LinkedInGetUserProfile(profileUrl) ==
  LET cacheKey == LinkedInProfileKey(profileUrl)
      cached == CacheGet(adapter.linkedinCache, cacheKey, adapter.clock)
      looked == [adapter EXCEPT !.linkedinCache =
                   CacheAfterGet(adapter.linkedinCache, cacheKey, adapter.clock)]
  IN /\ pc = "idle"
     /\ calls < MaxCalls
     /\ calls' = calls + 1
     /\ call' = ProfileCall("linkedin", profileUrl, cacheKey)
     /\ IF cached # Undefined
        THEN /\ pc' = "done"
             /\ outcome' = Resolve(cached)
             /\ fetch' = fetch
             /\ adapter' = looked
        ELSE /\ outcome' = outcome
             /\ adapter' = CheckRateLimit(looked, "getUserProfile")
             /\ IF WillWait(looked)
                THEN pc' = "p_rate" /\ fetch' = fetch
                ELSE pc' = "p_upstream" /\ fetch' = [fetch EXCEPT !["profile"] = Pending]
     /\ UNCHANGED orchVars

\* the sleep of getUserProfile's request in checkRateLimit ends
ProfileRateLimitWake ==
  /\ pc = "p_rate"
  /\ \E i \in DOMAIN adapter.waiting :
        /\ adapter.waiting[i].caller = "getUserProfile"
        /\ adapter.clock >= adapter.waiting[i].wakeAt
        /\ adapter' = AfterWait(adapter, i)
  /\ pc' = "p_upstream"
  /\ fetch' = [fetch EXCEPT !["profile"] = Pending]
  /\ UNCHANGED <<orchVars, call, outcome, calls>>

\* the API answers with the user: the profile is formatted, stored and
\* returned (twitterService.js 119-155, part_004 127-161)
UpstreamProfile(id) ==
  LET profile == FormattedProfile(call.service, id)
  IN /\ pc = "p_upstream"
     /\ fetch' = [fetch EXCEPT !["profile"] = Resolved([data |-> id])]
     /\ adapter' =
          IF call.service = "twitter"
          THEN [adapter EXCEPT !.twitterCache =
                  ServiceCacheSet(@, call.cacheKey, profile, adapter.clock, TwitterTTL)]
          ELSE [adapter EXCEPT !.linkedinCache =
                  ServiceCacheSet(@, call.cacheKey, profile, adapter.clock, LinkedInTTL)]
     /\ outcome' = Resolve(profile)
     /\ pc' = "done"
     /\ UNCHANGED <<orchVars, call, calls>>

\* the API answers without data: "not found" is thrown (twitterService.js
\* 115-117, part_004 123-125), caught at the end of getUserProfile and the
\* mock profile is returned (twitterService.js 156-164, part_004 162-170)
UpstreamNoData(mockId) ==
  /\ pc = "p_upstream"
  /\ fetch' = [fetch EXCEPT !["profile"] = Resolved(Undefined)]
  /\ outcome' = Resolve(getMockProfile(call.service, mockId, "User not found"))
  /\ pc' = "done"
  /\ UNCHANGED <<orchVars, call, calls, adapter>>

\* the request fails with an HTTP status: the error is caught at the end of
\* getUserProfile and the mock profile is returned
UpstreamError(status, mockId) ==
  LET message == IF call.service = "linkedin" THEN ApiErrorMessage(status)
                 ELSE "Request failed"
  IN /\ pc = "p_upstream"
     /\ fetch' = [fetch EXCEPT !["profile"] = Rejected(message)]
     /\ outcome' = Resolve(getMockProfile(call.service, mockId, message))
     /\ pc' = "done"
     /\ UNCHANGED <<orchVars, call, calls, adapter>>

NextAdapter ==
  \/ \E u \in Identifiers : TwitterGetUserProfile(u)
  \/ \E u \in {<<"a", "z">>} : LinkedInGetUserProfile(u)
  \/ ProfileRateLimitWake
  \/ \E id \in OrchIds : UpstreamProfile(id)
  \/ \E m \in MockIds : UpstreamNoData(m)
  \/ \E st \in {429, 401, 500}, m \in MockIds : UpstreamError(st, m)
  \/ Return
  \/ /\ adapter.waiting # <<>>
     /\ adapter.clock < RateWindow
     /\ ClockTick(RateWindow)
  \/ /\ adapter.clock < LinkedInTTL * 1000
     /\ ClockTick(LinkedInTTL * 1000)

SpecAdapter == InitServices({NewServices, BusyServices}) /\ [][NextAdapter]_vars

UpstreamFailed ==
  /\ pc = "done"
  /\ call.op = "getUserProfile"
  /\ \/ fetch["profile"].st = "rejected"
     \/ fetch["profile"] = Resolved(Undefined)

\* C22: a getUserProfile whose upstream request failed (no such user, rate
\* limit, authentication, any error) rejects; it never resolves with a
\* profile.
FailedUpstreamRejects == UpstreamFailed => outcome.kind = "rejected"

\* C30: under any interleaving of the callers of makeAPIRequest, no more
\* than 90 requests are sent in any window of 60 seconds.
AtMostRateLimitPerWindow ==
  \A i \in DOMAIN adapter.sent :
     Cardinality({j \in 1..i : adapter.sent[j] > adapter.sent[i] - RateWindow})
        <= RateLimit
====
